---- MODULE Spec2Model ----
(***************************************************************************)
(* daxfs: delta-log filesystem with speculative branching.                 *)
(*                                                                         *)
(* The model keeps, per branch, the delta log as the sequence of records   *)
(* that lie in the branch's sub-range, the used byte count, and the two    *)
(* in-memory indices: the inode index (an ordered map with unique keys)    *)
(* and the dirent index (a red-black tree keyed by (parent, hash) whose    *)
(* shape decides what a lookup finds).  A record pointer (hdr) is the byte *)
(* offset of the record inside its branch's log.                           *)
(***************************************************************************)
EXTENDS Integers, Sequences, FiniteSets, TLC

(* ------------------------------------------------------------------ *)
(* Bounds of the model                                                  *)
(* ------------------------------------------------------------------ *)
MaxBranches == 3        \* branch table slots used (main + forks)
MaxOps == 4             \* mutating / branch operations per behaviour
MaxPos == 1             \* largest file position written or truncated to
MaxWriteLen == 2        \* longest write payload
MaxThreads == 2         \* threads running inside the file system at once

(* ------------------------------------------------------------------ *)
(* On-storage format                                                    *)
(* ------------------------------------------------------------------ *)
DAXFS_ROOT_INO == 1

DAXFS_BRANCH_FREE == 0
DAXFS_BRANCH_ACTIVE == 1
DAXFS_BRANCH_COMMITTED == 2
DAXFS_BRANCH_ABORTED == 3

DAXFS_DELTA_WRITE == 1
DAXFS_DELTA_CREATE == 2
DAXFS_DELTA_DELETE == 3
DAXFS_DELTA_TRUNCATE == 4
DAXFS_DELTA_MKDIR == 5
DAXFS_DELTA_RENAME == 6
DAXFS_DELTA_SETATTR == 7

DAXFS_ATTR_MODE == 1
DAXFS_ATTR_UID == 2
DAXFS_ATTR_GID == 4
DAXFS_ATTR_SIZE == 8

\* sizeof() of the on-storage structures
SIZEOF_HDR == 24
SIZEOF_WRITE == 16
SIZEOF_CREATE == 24
SIZEOF_DELETE == 16
SIZEOF_TRUNCATE == 8
SIZEOF_RENAME == 32
SIZEOF_SETATTR == 24

S_IFMT == 61440
S_IFDIR == 16384
S_IFREG == 32768
FileMode == 33188       \* S_IFREG | 0644, the mode user space creates files with
DirPerm == 493          \* 0755, the mode user space passes to mkdir
AltMode == 33152        \* S_IFREG | 0600, the mode a chmod sets

RENAME_NOREPLACE == 1
RENAME_EXCHANGE == 2

\* error numbers (returned negated by the handlers)
ENOENT == 2
ENOMEM == 12
EFAULT == 14
EEXIST == 17
EINVAL == 22
ENOSPC == 28
EIO == 5
EROFS == 30
ESTALE == 116

NULL == -1              \* a null record pointer / absent value
NoSize == -1            \* (u64)-1: "leave the size as it is"
NoMode == -1            \* (u32)-1: "leave the mode as it is"

Max(a, b) == IF a >= b THEN a ELSE b
Min(a, b) == IF a <= b THEN a ELSE b

(* ------------------------------------------------------------------ *)
(* Base image: root directory with a two-byte file and an empty        *)
(* directory, threaded through first_child / next_sibling.             *)
(* ------------------------------------------------------------------ *)
base_inodes ==
  << [ino |-> 1, mode |-> S_IFDIR + DirPerm, size |-> 0, data |-> <<>>,
      name |-> "", parent_ino |-> 0, first_child |-> 2, next_sibling |-> 0],
     [ino |-> 2, mode |-> FileMode, size |-> 2, data |-> <<"x", "y">>,
      name |-> "f0", parent_ino |-> 1, first_child |-> 0, next_sibling |-> 3],
     [ino |-> 3, mode |-> S_IFDIR + DirPerm, size |-> 0, data |-> <<>>,
      name |-> "d0", parent_ino |-> 1, first_child |-> 0, next_sibling |-> 0] >>

base_inode_count == Len(base_inodes)

\* names user space may pass; n1, n2, n3 have the same hash in one directory
NewNames == {"n1", "n2", "n3"}
Names == NewNames \cup {"f0", "d0"}

Bytes == {"A", "B"}

(* ------------------------------------------------------------------ *)
(* Delta log records: header fields type, total_size, ino followed by  *)
(* the body of the record's type; fields a type does not have are 0.   *)
(* ------------------------------------------------------------------ *)
BlankRec ==
  [type |-> 0, total_size |-> 0, ino |-> 0,
   offset |-> 0, len |-> 0, data |-> <<>>,
   parent_ino |-> 0, new_ino |-> 0, mode |-> 0, name |-> "",
   new_parent_ino |-> 0, new_name |-> "",
   new_size |-> 0, valid |-> 0, size |-> 0]

WriteRec(ino, pos, data) ==
  [BlankRec EXCEPT !.type = DAXFS_DELTA_WRITE, !.ino = ino,
                   !.total_size = SIZEOF_HDR + SIZEOF_WRITE + Len(data),
                   !.offset = pos, !.len = Len(data), !.data = data]

CreateRec(type, parent_ino, new_ino, mode, name) ==
  [BlankRec EXCEPT !.type = type, !.ino = new_ino,
                   !.total_size = SIZEOF_HDR + SIZEOF_CREATE + Len(name),
                   !.parent_ino = parent_ino, !.new_ino = new_ino,
                   !.mode = mode, !.name = name]

DeleteRec(ino, parent_ino, name) ==
  [BlankRec EXCEPT !.type = DAXFS_DELTA_DELETE, !.ino = ino,
                   !.total_size = SIZEOF_HDR + SIZEOF_DELETE + Len(name),
                   !.parent_ino = parent_ino, !.name = name]

TruncateRec(ino, new_size) ==
  [BlankRec EXCEPT !.type = DAXFS_DELTA_TRUNCATE, !.ino = ino,
                   !.total_size = SIZEOF_HDR + SIZEOF_TRUNCATE,
                   !.new_size = new_size]

RenameRec(ino, old_parent, old_name, new_parent, new_name) ==
  [BlankRec EXCEPT !.type = DAXFS_DELTA_RENAME, !.ino = ino,
                   !.total_size = SIZEOF_HDR + SIZEOF_RENAME
                                  + Len(old_name) + Len(new_name),
                   !.parent_ino = old_parent, !.name = old_name,
                   !.new_parent_ino = new_parent, !.new_name = new_name]

SetattrRec(ino, valid, mode, size) ==
  [BlankRec EXCEPT !.type = DAXFS_DELTA_SETATTR, !.ino = ino,
                   !.total_size = SIZEOF_HDR + SIZEOF_SETATTR,
                   !.valid = valid, !.mode = mode, !.size = size]

\* byte offset at which the i-th record of a log starts
RECURSIVE StartOf(_, _)
StartOf(log, i) == IF i <= 1 THEN 0 ELSE StartOf(log, i - 1) + log[i - 1].total_size

\* the record a pointer (byte offset) refers to
HdrAt(log, off) == log[CHOOSE i \in 1..Len(log) : StartOf(log, i) = off]

(* ------------------------------------------------------------------ *)
(* Inode index: ino -> {hdr, deleted, size, mode}                      *)
(* ------------------------------------------------------------------ *)
EmptyInodeIndex == [i \in {} |-> 0]

index_add_inode(idx, ino, hdr, deleted, size, mode) ==
  IF ino \in DOMAIN idx
  THEN [idx EXCEPT ![ino] =
          [hdr |-> hdr, deleted |-> deleted,
           size |-> IF size # NoSize THEN size ELSE @.size,
           mode |-> IF mode # NoMode THEN mode ELSE @.mode]]
  ELSE [i \in DOMAIN idx \cup {ino} |->
          IF i = ino
          THEN [hdr |-> hdr, deleted |-> deleted,
                size |-> IF size # NoSize THEN size ELSE 0,
                mode |-> IF mode # NoMode THEN mode ELSE 0]
          ELSE idx[i]]

daxfs_delta_lookup_inode(idx, ino) ==
  IF ino \in DOMAIN idx THEN idx[ino].hdr ELSE NULL

daxfs_delta_is_deleted(idx, ino) ==
  IF ino \in DOMAIN idx THEN idx[ino].deleted ELSE FALSE

daxfs_delta_get_size(idx, ino) ==
  IF ino \in DOMAIN idx THEN idx[ino].size ELSE -ENOENT

(* ------------------------------------------------------------------ *)
(* Dirent index: red-black tree keyed by (parent_ino << 32) | hash.    *)
(* Nodes are numbered in insertion order; 0 is the null link.          *)
(* ------------------------------------------------------------------ *)
RECURSIVE Xor(_, _)
Xor(a, b) == IF a = 0 THEN b ELSE IF b = 0 THEN a
             ELSE (((a % 2) + (b % 2)) % 2) + 2 * Xor(a \div 2, b \div 2)

\* the kernel's jhash(name, len, seed) on the names of the model: the three
\* new names collide under every seed, the base names do not
jhash(name, seed) ==
  (CASE name \in NewNames -> 7
     [] name = "f0" -> 3
     [] OTHER -> 5) + 16 * seed

\* the two 32-bit halves of an inode number; the model's inode numbers are
\* far below 2^32
Low32(x) == x
High32(x) == 0

dirent_hash(parent_ino, name) ==
  Xor(jhash(name, Low32(parent_ino)), High32(parent_ino))

\* the combined key (parent_ino << 32) | hash, kept as its two halves
DirentKey(parent_ino, hash) == <<Low32(parent_ino), hash>>

\* order of two combined keys as 64-bit numbers
KeyLess(k1, k2) == k1[1] < k2[1] \/ (k1[1] = k2[1] /\ k1[2] < k2[2])

EmptyDirentIndex == [root |-> 0, nodes |-> <<>>]

\* rotations of the kernel's rbtree library, on the node table
RotateLeft(T, x) ==
  LET y == T.nodes[x].right
      b == T.nodes[y].left
      px == T.nodes[x].up
      n1 == [T.nodes EXCEPT ![x].right = b, ![x].up = y,
                            ![y].left = x, ![y].up = px]
      n2 == IF b # 0 THEN [n1 EXCEPT ![b].up = x] ELSE n1
      n3 == IF px = 0 THEN n2
            ELSE IF T.nodes[px].left = x THEN [n2 EXCEPT ![px].left = y]
            ELSE [n2 EXCEPT ![px].right = y]
  IN [root |-> IF px = 0 THEN y ELSE T.root, nodes |-> n3]

RotateRight(T, x) ==
  LET y == T.nodes[x].left
      b == T.nodes[y].right
      px == T.nodes[x].up
      n1 == [T.nodes EXCEPT ![x].left = b, ![x].up = y,
                            ![y].right = x, ![y].up = px]
      n2 == IF b # 0 THEN [n1 EXCEPT ![b].up = x] ELSE n1
      n3 == IF px = 0 THEN n2
            ELSE IF T.nodes[px].left = x THEN [n2 EXCEPT ![px].left = y]
            ELSE [n2 EXCEPT ![px].right = y]
  IN [root |-> IF px = 0 THEN y ELSE T.root, nodes |-> n3]

\* rebalance after linking the red node n
RECURSIVE rb_insert_color(_, _)
rb_insert_color(T, n) ==
  LET p == T.nodes[n].up IN
  IF p = 0 THEN [T EXCEPT !.nodes[n].red = FALSE]
  ELSE IF ~T.nodes[p].red THEN T
  ELSE
    LET g == T.nodes[p].up IN
    IF p # T.nodes[g].right
    THEN \* parent is the left child of the grandparent
      LET u == T.nodes[g].right IN
      IF u # 0 /\ T.nodes[u].red
      THEN rb_insert_color([T EXCEPT !.nodes[p].red = FALSE,
                                     !.nodes[u].red = FALSE,
                                     !.nodes[g].red = TRUE], g)
      ELSE LET inner == (n = T.nodes[p].right)
               T1 == IF inner THEN RotateLeft(T, p) ELSE T
               top == IF inner THEN n ELSE p
               T2 == RotateRight(T1, g)
           IN [T2 EXCEPT !.nodes[top].red = FALSE, !.nodes[g].red = TRUE]
    ELSE \* parent is the right child of the grandparent
      LET u == T.nodes[g].left IN
      IF u # 0 /\ T.nodes[u].red
      THEN rb_insert_color([T EXCEPT !.nodes[p].red = FALSE,
                                     !.nodes[u].red = FALSE,
                                     !.nodes[g].red = TRUE], g)
      ELSE LET inner == (n = T.nodes[p].left)
               T1 == IF inner THEN RotateRight(T, p) ELSE T
               top == IF inner THEN n ELSE p
               T2 == RotateLeft(T1, g)
           IN [T2 EXCEPT !.nodes[top].red = FALSE, !.nodes[g].red = TRUE]

\* the descent shared by insertion and lookup: left on a smaller key, right
\* on a greater key, and right again on an equal key with another name.
\* Returns the matching node, or the node and side where the walk fell off.
RECURSIVE DirentDescend(_, _, _, _, _, _)
DirentDescend(T, node, up, side, key, name) ==
  IF node = 0 THEN [found |-> 0, up |-> up, side |-> side]
  ELSE LET e == T.nodes[node]
           entry_key == DirentKey(e.parent_ino, e.name_hash) IN
       IF KeyLess(key, entry_key)
       THEN DirentDescend(T, e.left, node, "left", key, name)
       ELSE IF KeyLess(entry_key, key)
       THEN DirentDescend(T, e.right, node, "right", key, name)
       ELSE IF Len(name) = Len(e.name) /\ name = e.name
       THEN [found |-> node, up |-> up, side |-> side]
       ELSE DirentDescend(T, e.right, node, "right", key, name)

index_add_dirent(T, parent_ino, name, hdr, deleted) ==
  LET hash == dirent_hash(parent_ino, name)
      key == DirentKey(parent_ino, hash)
      d == DirentDescend(T, T.root, 0, "root", key, name)
  IN IF d.found # 0
     THEN [T EXCEPT !.nodes[d.found].hdr = hdr,
                    !.nodes[d.found].deleted = deleted]
     ELSE LET n == Len(T.nodes) + 1
              entry == [parent_ino |-> parent_ino, name_hash |-> hash,
                        name |-> name, hdr |-> hdr, deleted |-> deleted,
                        left |-> 0, right |-> 0, up |-> d.up, red |-> TRUE]
              nodes1 == Append(T.nodes, entry)
              nodes2 == IF d.up = 0 THEN nodes1
                        ELSE IF d.side = "left"
                        THEN [nodes1 EXCEPT ![d.up].left = n]
                        ELSE [nodes1 EXCEPT ![d.up].right = n]
          IN rb_insert_color([root |-> IF d.up = 0 THEN n ELSE T.root,
                              nodes |-> nodes2], n)

daxfs_delta_lookup_dirent(T, parent_ino, name) ==
  LET key == DirentKey(parent_ino, dirent_hash(parent_ino, name))
      d == DirentDescend(T, T.root, 0, "root", key, name)
  IN IF d.found # 0 THEN T.nodes[d.found].hdr ELSE NULL

(* ------------------------------------------------------------------ *)
(* Indexing one record: the switch of daxfs_delta_append and of        *)
(* daxfs_delta_build_index.  ix holds the two indices of one branch in *)
(* its fields inode and dirent.                                         *)
(* ------------------------------------------------------------------ *)
EmptyIndex == [inode |-> EmptyInodeIndex, dirent |-> EmptyDirentIndex]

IndexRecord(ix, rec, hdr) ==
  CASE rec.type \in {DAXFS_DELTA_CREATE, DAXFS_DELTA_MKDIR} ->
         [ix EXCEPT
            !.inode = index_add_inode(@, rec.new_ino, hdr, FALSE, 0, rec.mode),
            !.dirent = index_add_dirent(@, rec.parent_ino, rec.name, hdr, FALSE)]
    [] rec.type = DAXFS_DELTA_DELETE ->
         [ix EXCEPT
            !.inode = index_add_inode(@, rec.ino, hdr, TRUE, NoSize, NoMode),
            !.dirent = index_add_dirent(@, rec.parent_ino, rec.name, hdr, TRUE)]
    [] rec.type = DAXFS_DELTA_TRUNCATE ->
         [ix EXCEPT !.inode = index_add_inode(@, rec.ino, hdr, FALSE, rec.new_size, NoMode)]
    [] rec.type = DAXFS_DELTA_WRITE ->
         [ix EXCEPT !.inode = index_add_inode(@, rec.ino, hdr, FALSE,
                                              rec.offset + rec.len, NoMode)]
    [] rec.type = DAXFS_DELTA_SETATTR ->
         [ix EXCEPT !.inode = index_add_inode(@, rec.ino, hdr, FALSE,
               IF (rec.valid \div DAXFS_ATTR_SIZE) % 2 = 1 THEN rec.size ELSE NoSize,
               IF (rec.valid \div DAXFS_ATTR_MODE) % 2 = 1 THEN rec.mode ELSE NoMode)]
    [] rec.type = DAXFS_DELTA_RENAME ->
         [ix EXCEPT !.dirent =
            index_add_dirent(
              index_add_dirent(@, rec.parent_ino, rec.name, hdr, TRUE),
              rec.new_parent_ino, rec.new_name, hdr, FALSE)]
    [] OTHER -> ix

\* The same when kzalloc(GFP_ATOMIC) fails: an entry that exists is updated,
\* a new one is not made, and the adder's -ENOMEM is dropped by its caller
index_add_inode_nomem(idx, ino, hdr, deleted, size, mode) ==
  IF ino \in DOMAIN idx
  THEN index_add_inode(idx, ino, hdr, deleted, size, mode)
  ELSE idx

index_add_dirent_nomem(T, parent_ino, name, hdr, deleted) ==
  IF daxfs_delta_lookup_dirent(T, parent_ino, name) # NULL
  THEN index_add_dirent(T, parent_ino, name, hdr, deleted)
  ELSE T

IndexRecordNomem(ix, rec, hdr) ==
  CASE rec.type \in {DAXFS_DELTA_CREATE, DAXFS_DELTA_MKDIR} ->
         [ix EXCEPT
            !.inode = index_add_inode_nomem(@, rec.new_ino, hdr, FALSE, 0, rec.mode),
            !.dirent = index_add_dirent_nomem(@, rec.parent_ino, rec.name, hdr, FALSE)]
    [] rec.type = DAXFS_DELTA_DELETE ->
         [ix EXCEPT
            !.inode = index_add_inode_nomem(@, rec.ino, hdr, TRUE, NoSize, NoMode),
            !.dirent = index_add_dirent_nomem(@, rec.parent_ino, rec.name, hdr, TRUE)]
    [] OTHER -> ix

(* ------------------------------------------------------------------ *)
(* State                                                                *)
(* ------------------------------------------------------------------ *)
VARIABLES
  state,                  \* branch record: FREE / ACTIVE / COMMITTED / ABORTED
  parent_id,              \* branch record: 0 for the main branch
  invalidated,            \* branch was invalidated by a sibling's commit
  refcount,               \* branch record: children + mounts
  next_local_ino,         \* branch record: inode counter of the branch
  delta_log_offset,       \* branch record: start of the branch's sub-range
  delta_capacity,         \* branch record: bytes reserved for the log
  delta_log,              \* records lying in the branch's sub-range
  delta_size,             \* in-memory used byte count (branch->delta_size)
  on_dax_delta_log_size,  \* persisted used byte count
  inode_index,            \* in-memory inode index per branch
  dirent_index,           \* in-memory dirent index per branch
  next_inode_id,          \* superblock: global inode counter
  delta_alloc_offset,     \* info->delta_alloc_offset: bump pointer of the delta region
  super_delta_alloc_offset, \* the bump pointer persisted in the superblock
  i_size,                 \* VFS inode size per mount, NoSize when not held
  nops,                   \* number of operations issued so far
  last,                   \* the last operation, its arguments and result
  pc,                     \* per thread: the statement it is about to execute
  loc,                    \* per thread: arguments and local variables
  alloc_lock,             \* info->alloc_lock: 0 when free, else the holder
  index_lock,             \* branch->index_lock: 0 when free, else the holder
  slots                   \* the ranges handed out, in order: of the delta
                          \* region (at 0) and of every branch's log

vars == <<state, parent_id, invalidated, refcount, next_local_ino,
          delta_log_offset, delta_capacity, delta_log, delta_size,
          on_dax_delta_log_size, inode_index, dirent_index, next_inode_id,
          delta_alloc_offset, super_delta_alloc_offset, i_size, nops, last,
          pc, loc, alloc_lock, index_lock, slots>>

branchVars == <<state, parent_id, invalidated, refcount, delta_log_offset,
                delta_capacity, delta_alloc_offset, super_delta_alloc_offset>>
threadVars == <<pc, loc, alloc_lock, index_lock, slots>>
logVars == <<delta_log, delta_size, on_dax_delta_log_size, inode_index,
             dirent_index>>

Branches == 1..MaxBranches
Threads == 1..MaxThreads
\* the locals of a thread that is in no call
NoLocals == [op |-> "", b |-> 0, c |-> 0, ino |-> 0, size |-> 0, offset |-> 0,
             end |-> 0, ret |-> 0, rec |-> BlankRec, slot |-> 0, n |-> 0,
             i |-> 0, scan |-> 0, total_size |-> 0, pos |-> 0, count |-> 0,
             len |-> 0, total |-> 0]
Inos == 1..(base_inode_count + MaxOps)

\* layout of the model's image
DeltaRegionOffset == 8192
BranchCapacity == 160         \* bytes a fork reserves for the branch's log
DeltaRegionSize == BranchCapacity * MaxBranches

(* ------------------------------------------------------------------ *)
(* The branch context the delta functions work on                      *)
(* ------------------------------------------------------------------ *)
BranchCtx(b) ==
  [log |-> delta_log[b], size |-> delta_size[b],
   on_dax |-> on_dax_delta_log_size[b], cap |-> delta_capacity[b],
   inode |-> inode_index[b], dirent |-> dirent_index[b]]

\* fault: the context lands in the parent branch of b
StoreCtx_parent(b, ctx) ==
  LET t == IF parent_id[b] # 0 THEN parent_id[b] ELSE b IN
  /\ delta_log' = [delta_log EXCEPT ![t] = ctx.log]
  /\ delta_size' = [delta_size EXCEPT ![t] = ctx.size]
  /\ on_dax_delta_log_size' = [on_dax_delta_log_size EXCEPT ![t] = ctx.on_dax]
  /\ inode_index' = [inode_index EXCEPT ![t] = ctx.inode]
  /\ dirent_index' = [dirent_index EXCEPT ![t] = ctx.dirent]

\* write a branch context back
StoreCtx(b, ctx) ==
  /\ delta_log' = [delta_log EXCEPT ![b] = ctx.log]
  /\ delta_size' = [delta_size EXCEPT ![b] = ctx.size]
  /\ on_dax_delta_log_size' = [on_dax_delta_log_size EXCEPT ![b] = ctx.on_dax]
  /\ inode_index' = [inode_index EXCEPT ![b] = ctx.inode]
  /\ dirent_index' = [dirent_index EXCEPT ![b] = ctx.dirent]

\* fault: the size counter is bumped to the next multiple of 8
daxfs_delta_alloc_aligned(ctx, size) ==
  LET new_size == ((ctx.size + size + 7) \div 8) * 8 IN
  IF new_size > ctx.cap
  THEN [ptr |-> NULL, ctx |-> ctx]
  ELSE [ptr |-> ctx.size,
        ctx |-> [ctx EXCEPT !.size = new_size, !.on_dax = new_size]]

\* bump allocation inside the branch's sub-range; ptr is the offset handed out
daxfs_delta_alloc(ctx, size) ==
  LET new_size == ctx.size + size IN
  IF new_size > ctx.cap
  THEN [ptr |-> NULL, ctx |-> ctx]
  ELSE [ptr |-> ctx.size,
        ctx |-> [ctx EXCEPT !.size = new_size, !.on_dax = new_size]]

\* fault: the persisted size is bumped although the allocation was refused
daxfs_delta_append_bump_on_fail(ctx, rec) ==
  LET a == daxfs_delta_alloc(ctx, rec.total_size) IN
  IF a.ptr = NULL
  THEN [ret |-> -ENOSPC, ctx |-> [ctx EXCEPT !.on_dax = @ + rec.total_size]]
  ELSE [ret |-> 0,
        ctx |-> IndexRecord([a.ctx EXCEPT !.log = Append(@, rec)], rec, a.ptr)]

daxfs_delta_append(ctx, rec) ==
  LET a == daxfs_delta_alloc(ctx, rec.total_size) IN
  IF a.ptr = NULL
  THEN [ret |-> -ENOSPC, ctx |-> ctx]
  ELSE [ret |-> 0,
        ctx |-> IndexRecord([a.ctx EXCEPT !.log = Append(@, rec)], rec, a.ptr)]

\* the append while kzalloc(GFP_ATOMIC) fails
daxfs_delta_append_nomem(ctx, rec) ==
  LET a == daxfs_delta_alloc(ctx, rec.total_size) IN
  IF a.ptr = NULL
  THEN [ret |-> -ENOSPC, ctx |-> ctx]
  ELSE [ret |-> 0,
        ctx |-> IndexRecordNomem([a.ctx EXCEPT !.log = Append(@, rec)], rec, a.ptr)]

\* the scan loop of daxfs_delta_build_index over one log
RECURSIVE BuildScan(_, _, _, _, _)
BuildScan(ix, log, size, i, offset) ==
  IF offset >= size \/ i > Len(log) THEN ix
  ELSE LET rec == log[i] IN
       IF rec.total_size = 0 \/ offset + rec.total_size > size THEN ix
       ELSE BuildScan(IndexRecord(ix, rec, offset), log, size, i + 1,
                      offset + rec.total_size)

\* IX maps every branch to its pair of indices; the parent's index is built
\* first when its inode index is empty
RECURSIVE daxfs_delta_build_index(_, _, _, _)
daxfs_delta_build_index(IX, b, logs, sizes) ==
  LET p == parent_id[b]
      IX1 == IF p # 0 /\ IX[p].inode = EmptyInodeIndex
             THEN daxfs_delta_build_index(IX, p, logs, sizes)
             ELSE IX
  IN [IX1 EXCEPT ![b] = BuildScan(@, logs[b], sizes[b], 1, 0)]

AllIndex == [b \in Branches |->
               [inode |-> inode_index[b], dirent |-> dirent_index[b]]]

\* fault: the child's records are put in front of the parent's
daxfs_delta_merge_prepend(p, c) ==
  LET child_size == delta_size[c]
      a == daxfs_delta_alloc(BranchCtx(p), child_size)
      freed == [AllIndex EXCEPT ![p] = EmptyIndex]
      same == [ret |-> 0, log |-> delta_log, size |-> delta_size,
               on_dax |-> on_dax_delta_log_size, IX |-> AllIndex]
  IN IF child_size = 0 THEN same
     ELSE IF a.ptr = NULL THEN [same EXCEPT !.ret = -ENOSPC]
     ELSE LET logs == [delta_log EXCEPT ![p] = delta_log[c] \o @]
              sizes == [delta_size EXCEPT ![p] = a.ctx.size]
          IN [ret |-> 0, log |-> logs, size |-> sizes,
              on_dax |-> [on_dax_delta_log_size EXCEPT ![p] = a.ctx.on_dax],
              IX |-> daxfs_delta_build_index(freed, p, logs, sizes)]

\* fault: the parent's indices are freed before the space check
daxfs_delta_merge_free_first(p, c) ==
  LET child_size == delta_size[c]
      a == daxfs_delta_alloc(BranchCtx(p), child_size)
      freed == [AllIndex EXCEPT ![p] = EmptyIndex]
      same == [ret |-> 0, log |-> delta_log, size |-> delta_size,
               on_dax |-> on_dax_delta_log_size, IX |-> AllIndex]
  IN IF child_size = 0 THEN same
     ELSE IF a.ptr = NULL THEN [same EXCEPT !.ret = -ENOSPC, !.IX = freed]
     ELSE LET logs == [delta_log EXCEPT ![p] = @ \o delta_log[c]]
              sizes == [delta_size EXCEPT ![p] = a.ctx.size]
          IN [ret |-> 0, log |-> logs, size |-> sizes,
              on_dax |-> [on_dax_delta_log_size EXCEPT ![p] = a.ctx.on_dax],
              IX |-> daxfs_delta_build_index(freed, p, logs, sizes)]

\* merge the child's log into the parent's: the new values of the log
\* variables, and the return code
daxfs_delta_merge(p, c) ==
  LET child_size == delta_size[c]
      a == daxfs_delta_alloc(BranchCtx(p), child_size)
      same == [ret |-> 0, log |-> delta_log, size |-> delta_size,
               on_dax |-> on_dax_delta_log_size, IX |-> AllIndex]
  IN IF child_size = 0 THEN same
     ELSE IF delta_size[p] + child_size > delta_capacity[p]
     THEN [same EXCEPT !.ret = -ENOSPC]
     ELSE IF a.ptr = NULL THEN [same EXCEPT !.ret = -ENOSPC]
     ELSE LET logs == [delta_log EXCEPT ![p] = @ \o delta_log[c]]
              sizes == [delta_size EXCEPT ![p] = a.ctx.size]
              freed == [AllIndex EXCEPT ![p] = EmptyIndex]
          IN [ret |-> 0, log |-> logs, size |-> sizes,
              on_dax |-> [on_dax_delta_log_size EXCEPT ![p] = a.ctx.on_dax],
              IX |-> daxfs_delta_build_index(freed, p, logs, sizes)]

(* ------------------------------------------------------------------ *)
(* Resolution through the branch chain                                 *)
(* ------------------------------------------------------------------ *)
\* for (b = info->current_branch; b != NULL; b = b->parent)
RECURSIVE Chain(_)
Chain(b) == IF b = 0 THEN <<>> ELSE <<b>> \o Chain(parent_id[b])

ChainSet(b) == {Chain(b)[i] : i \in 1..Len(Chain(b))}

\* walk of a base directory's sibling list for a name; 0 when absent
RECURSIVE BaseFind(_, _)
BaseFind(child_ino, name) ==
  IF child_ino = 0 \/ child_ino > base_inode_count THEN 0
  ELSE IF Len(name) = Len(base_inodes[child_ino].name)
          /\ name = base_inodes[child_ino].name
       THEN child_ino
       ELSE BaseFind(base_inodes[child_ino].next_sibling, name)

\* the delta part of daxfs_name_exists: the first branch of the chain whose
\* dirent record is a DELETE or a CREATE/MKDIR decides
RECURSIVE NameInDeltas(_, _, _)
NameInDeltas(chain, parent_ino, name) ==
  IF chain = <<>> THEN [decided |-> FALSE, exists |-> FALSE, ino |-> 0]
  ELSE LET b == Head(chain)
           hdr == daxfs_delta_lookup_dirent(dirent_index[b], parent_ino, name)
           rec == HdrAt(delta_log[b], hdr)
       IN IF hdr # NULL /\ rec.type = DAXFS_DELTA_DELETE
          THEN [decided |-> TRUE, exists |-> FALSE, ino |-> 0]
          ELSE IF hdr # NULL /\ rec.type \in {DAXFS_DELTA_CREATE, DAXFS_DELTA_MKDIR}
          THEN [decided |-> TRUE, exists |-> TRUE, ino |-> rec.new_ino]
          ELSE NameInDeltas(Tail(chain), parent_ino, name)

daxfs_name_exists(b, parent_ino, name) ==
  LET d == NameInDeltas(Chain(b), parent_ino, name) IN
  IF d.decided THEN [exists |-> d.exists, ino |-> d.ino]
  ELSE IF parent_ino > base_inode_count THEN [exists |-> FALSE, ino |-> 0]
  ELSE LET child_ino == BaseFind(base_inodes[parent_ino].first_child, name) IN
       IF child_ino = 0 THEN [exists |-> FALSE, ino |-> 0]
       ELSE IF \E a \in ChainSet(b) : daxfs_delta_is_deleted(inode_index[a], child_ino)
       THEN [exists |-> FALSE, ino |-> 0]
       ELSE [exists |-> TRUE, ino |-> child_ino]

\* fault: every mount resolves names on the chain of the first forked branch
daxfs_lookup_shared(b, dir, name) ==
  LET forked == {m \in DOMAIN state :
                   state[m] = DAXFS_BRANCH_ACTIVE /\ parent_id[m] # 0}
      m == IF forked = {} THEN b
           ELSE CHOOSE x \in forked : \A y \in forked : x <= y
      r == daxfs_name_exists(m, dir, name)
  IN IF r.exists THEN r.ino ELSE -ENOENT

\* daxfs_lookup: the inode number, or -ENOENT for a negative dentry
daxfs_lookup(b, dir, name) ==
  LET r == daxfs_name_exists(b, dir, name) IN
  IF r.exists THEN r.ino ELSE -ENOENT

RECURSIVE ResolveInodeChain(_, _)
ResolveInodeChain(chain, ino) ==
  IF chain = <<>>
  THEN IF ino <= base_inode_count
       THEN [ret |-> 0, deleted |-> FALSE, mode |-> base_inodes[ino].mode,
             size |-> base_inodes[ino].size]
       ELSE [ret |-> -ENOENT, deleted |-> FALSE, mode |-> 0, size |-> 0]
  ELSE LET b == Head(chain)
           hdr == daxfs_delta_lookup_inode(inode_index[b], ino)
       IN IF daxfs_delta_is_deleted(inode_index[b], ino)
          THEN [ret |-> 0, deleted |-> TRUE, mode |-> 0, size |-> 0]
          ELSE IF hdr # NULL
          THEN IF HdrAt(delta_log[b], hdr).type = DAXFS_DELTA_DELETE
               THEN [ret |-> 0, deleted |-> TRUE, mode |-> 0, size |-> 0]
               ELSE [ret |-> 0, deleted |-> FALSE,
                     mode |-> inode_index[b][ino].mode,
                     size |-> inode_index[b][ino].size]
          ELSE ResolveInodeChain(Tail(chain), ino)

\* fault: only the mount's own branch is asked before the base image
daxfs_resolve_inode_leaf_only(b, ino) ==
  IF ino \in DOMAIN inode_index[b] THEN ResolveInodeChain(<<b>>, ino)
  ELSE ResolveInodeChain(<<>>, ino)

daxfs_resolve_inode(b, ino) == ResolveInodeChain(Chain(b), ino)

(* ------------------------------------------------------------------ *)
(* File data                                                            *)
(* ------------------------------------------------------------------ *)
\* the scan of one log for a WRITE record of ino covering pos: the number of
\* the record the scan returns, 0 when it reaches the end of the log
RECURSIVE ScanCover(_, _, _, _, _, _)
ScanCover(log, size, ino, pos, i, offset) ==
  IF offset >= size \/ i > Len(log) THEN 0
  ELSE LET rec == log[i] IN
       IF rec.total_size = 0 THEN 0
       ELSE IF rec.type = DAXFS_DELTA_WRITE /\ rec.ino = ino
               /\ pos >= rec.offset /\ pos < rec.offset + rec.len
       THEN i
       ELSE ScanCover(log, size, ino, pos, i + 1, offset + rec.total_size)

RECURSIVE ResolveDataChain(_, _, _, _)
ResolveDataChain(chain, ino, pos, len) ==
  IF chain = <<>>
  THEN IF ino <= base_inode_count
       THEN LET file_size == base_inodes[ino].size IN
            IF pos >= file_size
            THEN [src |-> "none", branch |-> 0, rec |-> 0, out_len |-> 0,
                  bytes |-> <<>>]
            ELSE LET n == Min(len, file_size - pos) IN
                 [src |-> "base", branch |-> 0, rec |-> 0, out_len |-> n,
                  bytes |-> SubSeq(base_inodes[ino].data, pos + 1, pos + n)]
       ELSE [src |-> "none", branch |-> 0, rec |-> 0, out_len |-> 0,
             bytes |-> <<>>]
  ELSE LET b == Head(chain)
           i == ScanCover(delta_log[b], delta_size[b], ino, pos, 1, 0)
       IN IF i # 0
          THEN LET wr == delta_log[b][i]
                   data_off == pos - wr.offset
                   n == Min(len, wr.len - data_off)
               IN [src |-> "delta", branch |-> b, rec |-> i, out_len |-> n,
                   bytes |-> SubSeq(wr.data, data_off + 1, data_off + n)]
          ELSE ResolveDataChain(Tail(chain), ino, pos, len)

\* fault: the chain is walked from the root towards the leaf
daxfs_resolve_file_data_root_first(b, ino, pos, len) ==
  LET chain == Chain(b) IN
  ResolveDataChain([i \in 1..Len(chain) |-> chain[Len(chain) + 1 - i]],
                   ino, pos, len)

daxfs_resolve_file_data(b, ino, pos, len) ==
  ResolveDataChain(Chain(b), ino, pos, len)

\* inode->i_size of the mount's VFS inode: the size the mount holds, or the
\* size the inode is loaded with when the mount does not hold it
ISize(b, ino) ==
  IF i_size[b][ino] # NoSize THEN i_size[b][ino]
  ELSE daxfs_resolve_inode(b, ino).size

IMode(b, ino) == daxfs_resolve_inode(b, ino).mode

RECURSIVE ReadLoop(_, _, _, _, _)
ReadLoop(b, ino, pos, count, acc) ==
  IF count <= 0 THEN acc
  ELSE LET r == daxfs_resolve_file_data(b, ino, pos, count) IN
       IF r.src = "none" \/ r.out_len = 0 THEN acc
       ELSE ReadLoop(b, ino, pos + r.out_len, count - r.out_len, acc \o r.bytes)

\* the bytes a read of count bytes at pos returns
daxfs_read_iter(b, ino, pos, count) ==
  IF pos >= ISize(b, ino) THEN <<>>
  ELSE ReadLoop(b, ino, pos,
                IF pos + count > ISize(b, ino) THEN ISize(b, ino) - pos ELSE count,
                <<>>)

(* ------------------------------------------------------------------ *)
(* Directory enumeration                                                *)
(* ------------------------------------------------------------------ *)
RECURSIVE IterBase(_, _)
IterBase(b, child_ino) ==
  IF child_ino = 0 \/ child_ino > base_inode_count THEN <<>>
  ELSE (IF \E a \in ChainSet(b) : daxfs_delta_is_deleted(inode_index[a], child_ino)
        THEN <<>>
        ELSE << [name |-> base_inodes[child_ino].name, ino |-> child_ino] >>)
       \o IterBase(b, base_inodes[child_ino].next_sibling)

\* the branches of the chain strictly closer to the leaf than branch
RECURSIVE CloserThan(_, _)
CloserThan(chain, branch) ==
  IF chain = <<>> \/ Head(chain) = branch THEN {}
  ELSE {Head(chain)} \cup CloserThan(Tail(chain), branch)

RECURSIVE IterLog(_, _, _, _, _)
IterLog(b, branch, dir, i, offset) ==
  IF offset >= delta_size[branch] \/ i > Len(delta_log[branch]) THEN <<>>
  ELSE LET rec == delta_log[branch][i] IN
       IF rec.total_size = 0 THEN <<>>
       ELSE (IF rec.type \in {DAXFS_DELTA_CREATE, DAXFS_DELTA_MKDIR}
                /\ rec.parent_ino = dir
                /\ ~ \E b2 \in CloserThan(Chain(b), branch) :
                        daxfs_delta_is_deleted(inode_index[b2], rec.new_ino)
             THEN << [name |-> rec.name, ino |-> rec.new_ino] >>
             ELSE <<>>)
            \o IterLog(b, branch, dir, i + 1, offset + rec.total_size)

RECURSIVE IterChain(_, _, _)
IterChain(b, chain, dir) ==
  IF chain = <<>> THEN <<>>
  ELSE IterLog(b, Head(chain), dir, 1, 0) \o IterChain(b, Tail(chain), dir)

\* fault: only the log of the mount's own branch is walked
daxfs_iterate_leaf_only(b, dir) ==
  (IF dir <= base_inode_count
   THEN IterBase(b, base_inodes[dir].first_child) ELSE <<>>)
  \o IterLog(b, b, dir, 1, 0)

\* a complete enumeration (after . and ..) of directory dir
daxfs_iterate(b, dir) ==
  (IF dir <= base_inode_count
   THEN IterBase(b, base_inodes[dir].first_child) ELSE <<>>)
  \o IterChain(b, Chain(b), dir)

(* ------------------------------------------------------------------ *)
(* What the VFS passes to the handlers                                 *)
(* ------------------------------------------------------------------ *)
\* a mount is bound to every forked branch from its fork until it is
\* committed or aborted
Mounted(b) == state[b] = DAXFS_BRANCH_ACTIVE /\ parent_id[b] # 0

\* inodes the mount can hold as directories
IsDir(b, ino) ==
  LET r == daxfs_resolve_inode(b, ino) IN
  r.ret = 0 /\ ~r.deleted /\ (r.mode \div 4096) % 16 = S_IFDIR \div 4096

Dirs(b) == {d \in Inos : IsDir(b, d)}

\* regular files the mount can open: inodes some name resolves to
Files(b) ==
  {daxfs_name_exists(b, d, n).ino : <<d, n>> \in
     {dn \in Dirs(b) \X Names : /\ daxfs_name_exists(b, dn[1], dn[2]).exists
                               /\ ~IsDir(b, daxfs_name_exists(b, dn[1], dn[2]).ino)}}

NoOp == [op |-> "init", b |-> 0, ret |-> 0, ino |-> 0, dir |-> 0, name |-> "",
         dir2 |-> 0, name2 |-> "", pos |-> 0, data |-> <<>>, flags |-> 0]

\* one more operation issued; the handlers of the sequential
\* specifications run to their end in one step, no thread is inside one
Step == nops' = nops + 1 /\ UNCHANGED threadVars

\* daxfs_alloc_ino: hand out the branch's next local inode number
daxfs_alloc_ino(b) == next_local_ino[b]

\* the end of a handler that appended one record: the branch keeps what the
\* append left and the handler returns the append's return code
AppendDone(b, r, done) ==
  /\ StoreCtx(b, r.ctx)
  /\ last' = [done EXCEPT !.ret = r.ret]

(* ------------------------------------------------------------------ *)
(* Directory handlers                                                   *)
(* ------------------------------------------------------------------ *)
\* fault: the inode number is drawn before the name is looked up
CreateEntry_alloc_first(b, dir, name, type, mode, op) ==
  LET new_ino == daxfs_alloc_ino(b) IN
  /\ IsDir(b, dir)
  /\ Step
  /\ next_local_ino' = [next_local_ino EXCEPT ![b] = new_ino + 1]
  /\ next_inode_id' = IF new_ino >= next_inode_id THEN new_ino + 1
                      ELSE next_inode_id
  /\ IF daxfs_name_exists(b, dir, name).exists
     THEN /\ last' = [NoOp EXCEPT !.op = op, !.b = b, !.dir = dir,
                                  !.name = name, !.ret = -EEXIST]
          /\ UNCHANGED <<logVars, i_size>>
     ELSE /\ AppendDone(b,
                daxfs_delta_append(BranchCtx(b),
                                   CreateRec(type, dir, new_ino, mode, name)),
                [NoOp EXCEPT !.op = op, !.b = b, !.dir = dir,
                             !.name = name, !.ino = new_ino])
          /\ i_size' = IF last'.ret = 0 /\ type = DAXFS_DELTA_CREATE
                       THEN [i_size EXCEPT ![b][new_ino] = 0] ELSE i_size
  /\ UNCHANGED branchVars

\* create and mkdir differ in the record type and the mode
CreateEntry(b, dir, name, type, mode, op) ==
  LET new_ino == daxfs_alloc_ino(b) IN
  /\ IsDir(b, dir)
  /\ Step
  /\ IF daxfs_name_exists(b, dir, name).exists
     THEN /\ last' = [NoOp EXCEPT !.op = op, !.b = b, !.dir = dir,
                                  !.name = name, !.ret = -EEXIST]
          /\ UNCHANGED <<logVars, next_local_ino, next_inode_id, i_size>>
     ELSE /\ next_local_ino' = [next_local_ino EXCEPT ![b] = new_ino + 1]
          /\ next_inode_id' = IF new_ino >= next_inode_id THEN new_ino + 1
                              ELSE next_inode_id
          /\ AppendDone(b,
                daxfs_delta_append(BranchCtx(b),
                                   CreateRec(type, dir, new_ino, mode, name)),
                [NoOp EXCEPT !.op = op, !.b = b, !.dir = dir,
                             !.name = name, !.ino = new_ino])
          /\ i_size' = IF last'.ret = 0 /\ type = DAXFS_DELTA_CREATE
                       THEN [i_size EXCEPT ![b][new_ino] = 0] ELSE i_size
  /\ UNCHANGED branchVars

daxfs_create(b, dir, name) ==
  CreateEntry(b, dir, name, DAXFS_DELTA_CREATE, FileMode, "create")

daxfs_mkdir(b, dir, name) ==
  CreateEntry(b, dir, name, DAXFS_DELTA_MKDIR, S_IFDIR + DirPerm, "mkdir")

\* the VFS calls unlink on a positive dentry of a non-directory and rmdir on
\* one of a directory; rmdir is unlink
RemoveEntry(b, dir, name, op) ==
  /\ IsDir(b, dir)
  /\ \E ino \in Inos :
        /\ daxfs_name_exists(b, dir, name) = [exists |-> TRUE, ino |-> ino]
        /\ (op = "rmdir") = IsDir(b, ino)
        /\ AppendDone(b,
              daxfs_delta_append(BranchCtx(b), DeleteRec(ino, dir, name)),
              [NoOp EXCEPT !.op = op, !.b = b, !.dir = dir, !.name = name,
                           !.ino = ino])
  /\ Step
  /\ UNCHANGED <<branchVars, next_local_ino, next_inode_id, i_size>>

daxfs_unlink(b, dir, name) == RemoveEntry(b, dir, name, "unlink")

daxfs_rmdir(b, dir, name) == RemoveEntry(b, dir, name, "rmdir")

\* fault: only a lone RENAME_EXCHANGE is refused
daxfs_rename_exchange_only(b, old_dir, old_name, new_dir, new_name, flags) ==
  /\ IsDir(b, old_dir) /\ IsDir(b, new_dir)
  /\ <<old_dir, old_name>> # <<new_dir, new_name>>
  /\ Step
  /\ \E ino \in Inos :
        /\ daxfs_name_exists(b, old_dir, old_name) = [exists |-> TRUE, ino |-> ino]
        /\ LET done == [NoOp EXCEPT !.op = "rename", !.b = b,
                                    !.dir = old_dir, !.name = old_name,
                                    !.dir2 = new_dir, !.name2 = new_name,
                                    !.ino = ino, !.flags = flags]
           IN IF flags = RENAME_EXCHANGE
              THEN last' = [done EXCEPT !.ret = -EINVAL] /\ UNCHANGED logVars
              ELSE IF daxfs_name_exists(b, new_dir, new_name).exists
                      /\ flags % 2 = RENAME_NOREPLACE
              THEN last' = [done EXCEPT !.ret = -EEXIST] /\ UNCHANGED logVars
              ELSE AppendDone(b,
                     daxfs_delta_append(BranchCtx(b),
                       RenameRec(ino, old_dir, old_name, new_dir, new_name)),
                     done)
  /\ UNCHANGED <<branchVars, next_local_ino, next_inode_id, i_size>>

daxfs_rename(b, old_dir, old_name, new_dir, new_name, flags) ==
  /\ IsDir(b, old_dir) /\ IsDir(b, new_dir)
  /\ <<old_dir, old_name>> # <<new_dir, new_name>>
  /\ Step
  /\ \E ino \in Inos :
        /\ daxfs_name_exists(b, old_dir, old_name) = [exists |-> TRUE, ino |-> ino]
        /\ LET done == [NoOp EXCEPT !.op = "rename", !.b = b,
                                    !.dir = old_dir, !.name = old_name,
                                    !.dir2 = new_dir, !.name2 = new_name,
                                    !.ino = ino, !.flags = flags]
           IN IF (flags \div 2) # 0        \* flags & ~RENAME_NOREPLACE
              THEN last' = [done EXCEPT !.ret = -EINVAL] /\ UNCHANGED logVars
              ELSE IF daxfs_name_exists(b, new_dir, new_name).exists
                      /\ flags % 2 = RENAME_NOREPLACE
              THEN last' = [done EXCEPT !.ret = -EEXIST] /\ UNCHANGED logVars
              ELSE AppendDone(b,
                     daxfs_delta_append(BranchCtx(b),
                       RenameRec(ino, old_dir, old_name, new_dir, new_name)),
                     done)
  /\ UNCHANGED <<branchVars, next_local_ino, next_inode_id, i_size>>

(* ------------------------------------------------------------------ *)
(* File handlers                                                        *)
(* ------------------------------------------------------------------ *)
Zero == "0"             \* a byte of the freshly zeroed delta region

\* fault: the copy from user space fails (nothing is copied)
daxfs_write_iter(b, ino, pos, data, fault) ==
  LET len == Len(data)
      ctx == BranchCtx(b)
      a == daxfs_delta_alloc(ctx, SIZEOF_HDR + SIZEOF_WRITE + len)
      hdr == a.ptr
      rec == WriteRec(ino, pos, IF fault THEN [i \in 1..len |-> Zero] ELSE data)
      logged == [a.ctx EXCEPT !.log = Append(@, rec)]
      idx == ctx.inode
      idx1 == IF ino \in DOMAIN idx
              THEN [idx EXCEPT ![ino].hdr = hdr,
                               ![ino].size = IF pos + len > @ THEN pos + len ELSE @]
              ELSE [i \in DOMAIN idx \cup {ino} |->
                      IF i = ino
                      THEN [hdr |-> hdr, deleted |-> FALSE, size |-> pos + len,
                            mode |-> IMode(b, ino)]
                      ELSE idx[i]]
      done(ret) == last' = [NoOp EXCEPT !.op = "write", !.b = b, !.ino = ino,
                              !.pos = pos, !.data = data, !.ret = ret]
  IN
  /\ len > 0
  /\ Step
  /\ IF a.ptr = NULL
     THEN done(-ENOSPC) /\ UNCHANGED <<logVars, i_size>>
     ELSE IF fault
     THEN done(-EFAULT) /\ StoreCtx(b, logged) /\ UNCHANGED i_size
     ELSE /\ done(len)
          /\ i_size' = [i_size EXCEPT ![b][ino] = Max(ISize(b, ino), pos + len)]
          /\ StoreCtx(b, [logged EXCEPT !.inode = idx1])
  /\ UNCHANGED <<branchVars, next_local_ino, next_inode_id>>

\* the second half of daxfs_setattr; r1 is what the truncate half left
SetattrAttrs(b, ino, ia_valid, ia_size, ia_mode, r1) ==
  /\ AppendDone(b,
        IF r1.ret = 0 /\ (ia_valid % DAXFS_ATTR_SIZE) # 0
        THEN daxfs_delta_append(r1.ctx,
               SetattrRec(ino, ia_valid % DAXFS_ATTR_SIZE, ia_mode, 0))
        ELSE r1,
        [NoOp EXCEPT !.op = "setattr", !.b = b, !.ino = ino,
                     !.pos = ia_size, !.flags = ia_valid])
  /\ i_size' = IF (ia_valid \div DAXFS_ATTR_SIZE) % 2 = 1 /\ r1.ret = 0
               THEN [i_size EXCEPT ![b][ino] = ia_size] ELSE i_size

\* ia_valid selects ATTR_SIZE (truncate) and / or ATTR_MODE (chmod)
daxfs_setattr(b, ino, ia_valid, ia_size, ia_mode) ==
  /\ ia_valid # 0
  /\ Step
  /\ SetattrAttrs(b, ino, ia_valid, ia_size, ia_mode,
        IF (ia_valid \div DAXFS_ATTR_SIZE) % 2 = 1
        THEN daxfs_delta_append(BranchCtx(b), TruncateRec(ino, ia_size))
        ELSE [ret |-> 0, ctx |-> BranchCtx(b)])
  /\ UNCHANGED <<branchVars, next_local_ino, next_inode_id>>

(* ------------------------------------------------------------------ *)
(* Delta region allocator and branch manager                           *)
(* ------------------------------------------------------------------ *)
\* bump allocation in the delta region: the offset handed out (0 when out of
\* space) and the new bump pointer
daxfs_mem_alloc_region(size) ==
  LET offset == delta_alloc_offset
      end == offset + size
      region_end == DeltaRegionOffset + DeltaRegionSize
  IN IF end > region_end THEN [offset |-> 0, bump |-> delta_alloc_offset]
     ELSE [offset |-> offset, bump |-> end]

FreeSlots == {c \in Branches : state[c] = DAXFS_BRANCH_FREE}

\* fork a child of branch p into the first free slot and mount it
daxfs_branch_create(p) ==
  LET c == CHOOSE x \in FreeSlots : \A y \in FreeSlots : x <= y
      r == daxfs_mem_alloc_region(BranchCapacity)
  IN
  /\ state[p] = DAXFS_BRANCH_ACTIVE /\ ~invalidated[p]
  /\ FreeSlots # {}
  /\ Step
  /\ IF r.offset = 0
     THEN /\ last' = [NoOp EXCEPT !.op = "fork", !.b = p, !.ret = -ENOSPC]
          /\ UNCHANGED <<branchVars, next_local_ino>>
     ELSE /\ delta_alloc_offset' = r.bump
          /\ super_delta_alloc_offset' = r.bump
          /\ state' = [state EXCEPT ![c] = DAXFS_BRANCH_ACTIVE]
          /\ parent_id' = [parent_id EXCEPT ![c] = p]
          /\ refcount' = [refcount EXCEPT ![c] = 1, ![p] = @ + 1]
          /\ delta_log_offset' = [delta_log_offset EXCEPT ![c] = r.offset]
          /\ delta_capacity' = [delta_capacity EXCEPT ![c] = BranchCapacity]
          /\ next_local_ino' = [next_local_ino EXCEPT ![c] = next_inode_id]
          /\ last' = [NoOp EXCEPT !.op = "fork", !.b = c, !.ino = p, !.ret = 0]
          /\ UNCHANGED invalidated
  /\ UNCHANGED <<logVars, next_inode_id, i_size>>

Siblings(c) ==
  {s \in Branches : s # c /\ state[s] = DAXFS_BRANCH_ACTIVE
                          /\ parent_id[s] = parent_id[c]}

\* fault: the commit leaves the siblings of the committed branch valid
CommitDone_keep_siblings(c, m) ==
  /\ last' = [NoOp EXCEPT !.op = "commit", !.b = c, !.ino = parent_id[c],
                          !.ret = m.ret]
  /\ delta_log' = m.log
  /\ delta_size' = m.size
  /\ on_dax_delta_log_size' = m.on_dax
  /\ inode_index' = [b \in Branches |-> m.IX[b].inode]
  /\ dirent_index' = [b \in Branches |-> m.IX[b].dirent]
  /\ IF m.ret = 0
     THEN state' = [state EXCEPT ![c] = DAXFS_BRANCH_COMMITTED]
     ELSE UNCHANGED state
  /\ UNCHANGED invalidated

\* the end of a commit; m is what the merge left
CommitDone(c, m) ==
  /\ last' = [NoOp EXCEPT !.op = "commit", !.b = c, !.ino = parent_id[c],
                          !.ret = m.ret]
  /\ delta_log' = m.log
  /\ delta_size' = m.size
  /\ on_dax_delta_log_size' = m.on_dax
  /\ inode_index' = [b \in Branches |-> m.IX[b].inode]
  /\ dirent_index' = [b \in Branches |-> m.IX[b].dirent]
  /\ IF m.ret = 0
     THEN /\ state' = [state EXCEPT ![c] = DAXFS_BRANCH_COMMITTED]
          /\ invalidated' = [s \in Branches |->
                               invalidated[s] \/ s \in Siblings(c)]
     ELSE UNCHANGED <<state, invalidated>>

\* commit: merge the child's log into the parent's, mark the child COMMITTED
\* and invalidate its siblings
daxfs_branch_commit(c) ==
  /\ Mounted(c) /\ ~invalidated[c]
  /\ state[parent_id[c]] = DAXFS_BRANCH_ACTIVE
  /\ Step
  /\ CommitDone(c, daxfs_delta_merge(parent_id[c], c))
  /\ UNCHANGED <<parent_id, refcount, delta_log_offset, delta_capacity,
                 delta_alloc_offset, super_delta_alloc_offset, next_local_ino,
                 next_inode_id, i_size>>

\* fault: the indices of the parent branch are freed instead
daxfs_delta_destroy_branch_parent(b) ==
  /\ inode_index' = [inode_index EXCEPT ![parent_id[b]] = EmptyInodeIndex]
  /\ dirent_index' = [dirent_index EXCEPT ![parent_id[b]] = EmptyDirentIndex]

\* free both indices of a branch
daxfs_delta_destroy_branch(b) ==
  /\ inode_index' = [inode_index EXCEPT ![b] = EmptyInodeIndex]
  /\ dirent_index' = [dirent_index EXCEPT ![b] = EmptyDirentIndex]

\* abort (unmount of a branch nothing was forked from)
daxfs_branch_abort(c) ==
  /\ Mounted(c)
  /\ ~ \E k \in Branches : state[k] = DAXFS_BRANCH_ACTIVE /\ parent_id[k] = c
  /\ Step
  /\ state' = [state EXCEPT ![c] = DAXFS_BRANCH_ABORTED]
  /\ refcount' = [refcount EXCEPT ![c] = 0, ![parent_id[c]] = @ - 1]
  /\ daxfs_delta_destroy_branch(c)
  /\ i_size' = [i_size EXCEPT ![c] = [i \in Inos |-> NoSize]]
  /\ last' = [NoOp EXCEPT !.op = "abort", !.b = c, !.ino = parent_id[c], !.ret = 0]
  /\ UNCHANGED <<parent_id, invalidated, delta_log_offset, delta_capacity,
                 delta_alloc_offset, super_delta_alloc_offset, delta_log,
                 delta_size,
                 on_dax_delta_log_size, next_local_ino, next_inode_id>>

(* ------------------------------------------------------------------ *)
(* Specification                                                        *)
(* ------------------------------------------------------------------ *)
Init ==
  /\ state = [b \in Branches |-> IF b = 1 THEN DAXFS_BRANCH_ACTIVE
                                 ELSE DAXFS_BRANCH_FREE]
  /\ parent_id = [b \in Branches |-> 0]
  /\ invalidated = [b \in Branches |-> FALSE]
  /\ refcount = [b \in Branches |-> IF b = 1 THEN 1 ELSE 0]
  /\ next_local_ino = [b \in Branches |-> base_inode_count + 1]
  /\ delta_log_offset = [b \in Branches |-> IF b = 1 THEN DeltaRegionOffset ELSE 0]
  /\ delta_capacity = [b \in Branches |-> IF b = 1 THEN BranchCapacity ELSE 0]
  /\ delta_log = [b \in Branches |-> <<>>]
  /\ delta_size = [b \in Branches |-> 0]
  /\ on_dax_delta_log_size = [b \in Branches |-> 0]
  /\ inode_index = [b \in Branches |-> EmptyInodeIndex]
  /\ dirent_index = [b \in Branches |-> EmptyDirentIndex]
  /\ next_inode_id = base_inode_count + 1
  /\ delta_alloc_offset = DeltaRegionOffset + BranchCapacity
  /\ i_size = [b \in Branches |-> [i \in Inos |-> NoSize]]
  /\ nops = 0
  /\ last = NoOp
  /\ super_delta_alloc_offset = DeltaRegionOffset + BranchCapacity
  /\ pc = [t \in Threads |-> "idle"]
  /\ loc = [t \in Threads |-> NoLocals]
  /\ alloc_lock = 0
  /\ index_lock = [b \in Branches |-> 0]
  /\ slots = [b \in 0..MaxBranches |-> <<>>]

WriteData == {[i \in 1..n |-> c] : n \in 1..MaxWriteLen, c \in Bytes}

Mounts == {b \in Branches : Mounted(b)}

\* mounts whose branch no sibling's commit has invalidated
Live == {b \in Mounts : ~invalidated[b]}

VfsOps == {"lookup", "readdir", "read", "create", "mkdir", "unlink", "rmdir",
           "rename", "write", "setattr"}

\* an operation on a mount bound to an invalidated branch is refused
VfsStale(b, op) ==
  /\ Mounted(b) /\ invalidated[b]
  /\ Step
  /\ last' = [NoOp EXCEPT !.op = op, !.b = b, !.ret = -ESTALE]
  /\ UNCHANGED <<branchVars, logVars, next_local_ino, next_inode_id, i_size>>

\* what the operations that change nothing return on mount b
VfsLookup(b, dir, name) ==
  IF invalidated[b] THEN -ESTALE ELSE daxfs_lookup(b, dir, name)

VfsRead(b, ino, pos, count) ==
  IF invalidated[b] THEN -ESTALE ELSE daxfs_read_iter(b, ino, pos, count)

VfsReaddir(b, dir) ==
  IF invalidated[b] THEN -ESTALE ELSE daxfs_iterate(b, dir)

Fork == nops < MaxOps /\ \E p \in Branches : daxfs_branch_create(p)
Commit == nops < MaxOps /\ \E c \in Mounts : daxfs_branch_commit(c)
Abort == nops < MaxOps /\ \E c \in Mounts : daxfs_branch_abort(c)
Stale == nops < MaxOps /\ \E b \in Mounts, op \in VfsOps : VfsStale(b, op)
Create == nops < MaxOps /\ \E b \in Live : \E d \in Dirs(b) : \E n \in NewNames :
            daxfs_create(b, d, n)
Mkdir == nops < MaxOps /\ \E b \in Live : \E d \in Dirs(b) : \E n \in NewNames :
            daxfs_mkdir(b, d, n)
Unlink == nops < MaxOps /\ \E b \in Live : \E d \in Dirs(b) : \E n \in Names :
            daxfs_unlink(b, d, n)
Rmdir == nops < MaxOps /\ \E b \in Live : \E d \in Dirs(b) : \E n \in Names :
            daxfs_rmdir(b, d, n)
Rename == nops < MaxOps /\ \E b \in Live : \E d \in Dirs(b) : \E n \in Names :
            /\ daxfs_name_exists(b, d, n).exists
            /\ \E d2 \in Dirs(b), n2 \in NewNames,
                  f \in {0, RENAME_NOREPLACE, RENAME_EXCHANGE} :
                  daxfs_rename(b, d, n, d2, n2, f)
Write == nops < MaxOps /\ \E b \in Live : \E i \in Files(b) :
            \E pos \in 0..MaxPos, data \in WriteData, fault \in BOOLEAN :
               daxfs_write_iter(b, i, pos, data, fault)
Setattr == nops < MaxOps /\ \E b \in Live : \E i \in Files(b) :
              \E v \in {DAXFS_ATTR_SIZE, DAXFS_ATTR_MODE,
                         DAXFS_ATTR_SIZE + DAXFS_ATTR_MODE}, sz \in 0..MaxPos :
                 daxfs_setattr(b, i, v, sz, AltMode)

Next == \/ Fork \/ Commit \/ Abort \/ Stale
        \/ Create \/ Mkdir \/ Unlink \/ Rmdir \/ Rename
        \/ Write \/ Setattr

Spec == Init /\ [][Next]_vars

(* ------------------------------------------------------------------ *)
(* Commit of a branch whose parent holds records of its own: the same  *)
(* handlers on fewer inputs, so that five operations can be explored   *)
(* ------------------------------------------------------------------ *)
MaxMergeOps == 5

MergeFork == nops < MaxMergeOps /\ \E p \in Branches : daxfs_branch_create(p)
MergeCommit == nops < MaxMergeOps /\ \E c \in Mounts : daxfs_branch_commit(c)
MergeCreate == nops < MaxMergeOps /\ \E b \in Live : \E n \in {"n1", "n2"} :
                 daxfs_create(b, DAXFS_ROOT_INO, n)
MergeUnlink == nops < MaxMergeOps /\ \E b \in Live : \E n \in {"f0", "n1"} :
                 daxfs_unlink(b, DAXFS_ROOT_INO, n)
MergeRename == nops < MaxMergeOps /\ \E b \in Live : \E n \in {"f0", "n1"} :
                 daxfs_rename(b, DAXFS_ROOT_INO, n, DAXFS_ROOT_INO, "n2", 0)
MergeWrite == nops < MaxMergeOps /\ \E b \in Live : \E i \in Files(b) :
                \E pos \in 0..MaxPos, c \in Bytes :
                   daxfs_write_iter(b, i, pos, <<c>>, FALSE)

MergeNext == \/ MergeFork \/ MergeCommit \/ MergeCreate \/ MergeUnlink
             \/ MergeRename \/ MergeWrite

MergeSpec == Init /\ [][MergeNext]_vars

(* ------------------------------------------------------------------ *)
(* The refusals in front of the handlers: a mount without a branch is   *)
(* the read-only mount of main, and a mount stays bound to its branch   *)
(* after the branch was committed, aborted or invalidated               *)
(* ------------------------------------------------------------------ *)
MaxGateOps == 4

\* fault: the mount of main is writable
VfsReadOnly_never(b) == FALSE

\* a mount without a branch is bound to main and is read-only
VfsReadOnly(b) == parent_id[b] = 0

\* fault: only the invalidation by a sibling's commit is looked at
VfsBranchStale_invalidated_only(b) == invalidated[b]

\* the branch of the mount is no longer ACTIVE, or was invalidated
VfsBranchStale(b) == state[b] # DAXFS_BRANCH_ACTIVE \/ invalidated[b]

VfsRefuse(b, op, ret) ==
  /\ Step
  /\ last' = [NoOp EXCEPT !.op = op, !.b = b, !.ret = ret]
  /\ UNCHANGED <<branchVars, logVars, next_local_ino, next_inode_id, i_size>>

\* 0 when the mutation reaches the handler
VfsGate(b) ==
  IF VfsReadOnly(b) THEN -EROFS
  ELSE IF VfsBranchStale(b) THEN -ESTALE
  ELSE 0

\* every mount there can be: main, and one per branch slot in use
GateMounts == {b \in Branches : state[b] # DAXFS_BRANCH_FREE}

GateFork == nops < MaxGateOps /\ \E p \in Branches : daxfs_branch_create(p)
GateCommit == nops < MaxGateOps /\ \E c \in Mounts : daxfs_branch_commit(c)
GateAbort == nops < MaxGateOps /\ \E c \in Mounts : daxfs_branch_abort(c)
GateCreate == nops < MaxGateOps /\ \E b \in GateMounts : \E n \in {"n1", "n2"} :
                IF VfsGate(b) # 0 THEN VfsRefuse(b, "create", VfsGate(b))
                ELSE daxfs_create(b, DAXFS_ROOT_INO, n)
GateUnlink == nops < MaxGateOps /\ \E b \in GateMounts : \E n \in {"f0", "n1"} :
                /\ daxfs_name_exists(b, DAXFS_ROOT_INO, n).exists
                /\ IF VfsGate(b) # 0 THEN VfsRefuse(b, "unlink", VfsGate(b))
                   ELSE daxfs_unlink(b, DAXFS_ROOT_INO, n)
GateWrite == nops < MaxGateOps /\ \E b \in GateMounts : \E i \in Files(b) :
               \E pos \in 0..MaxPos, c \in Bytes :
                  IF VfsGate(b) # 0 THEN VfsRefuse(b, "write", VfsGate(b))
                  ELSE daxfs_write_iter(b, i, pos, <<c>>, FALSE)

GateNext == \/ GateFork \/ GateCommit \/ GateAbort
            \/ GateCreate \/ GateUnlink \/ GateWrite

GateSpec == Init /\ [][GateNext]_vars

(* ------------------------------------------------------------------ *)
(* Renames with every combination of the flag bits, onto free and onto *)
(* taken names                                                          *)
(* ------------------------------------------------------------------ *)
MaxRenameOps == 4
RENAME_WHITEOUT == 4

RenameFlags == 0..(RENAME_NOREPLACE + RENAME_EXCHANGE + RENAME_WHITEOUT)

RenameFork == nops < MaxRenameOps /\ \E p \in Branches : daxfs_branch_create(p)
RenameCreate == nops < MaxRenameOps /\ \E b \in Live : \E n \in {"n1", "n2"} :
                  daxfs_create(b, DAXFS_ROOT_INO, n)
RenameMkdir == nops < MaxRenameOps /\ \E b \in Live :
                 daxfs_mkdir(b, DAXFS_ROOT_INO, "n3")
RenameRename == nops < MaxRenameOps /\ \E b \in Live : \E d \in Dirs(b) :
                  \E n \in Names :
                     /\ daxfs_name_exists(b, d, n).exists
                     /\ \E d2 \in Dirs(b), n2 \in Names, f \in RenameFlags :
                           daxfs_rename(b, d, n, d2, n2, f)

RenameNext == RenameFork \/ RenameCreate \/ RenameMkdir \/ RenameRename

RenameSpec == Init /\ [][RenameNext]_vars

(* ------------------------------------------------------------------ *)
(* The handlers while the allocation of index nodes fails               *)
(* ------------------------------------------------------------------ *)
MaxNomemOps == 4

\* daxfs_create of a free name, every kzalloc(GFP_ATOMIC) of the call failing
daxfs_create_nomem(b, dir, name) ==
  LET new_ino == daxfs_alloc_ino(b) IN
  /\ IsDir(b, dir)
  /\ ~daxfs_name_exists(b, dir, name).exists
  /\ Step
  /\ next_local_ino' = [next_local_ino EXCEPT ![b] = new_ino + 1]
  /\ next_inode_id' = IF new_ino >= next_inode_id THEN new_ino + 1
                      ELSE next_inode_id
  /\ AppendDone(b,
        daxfs_delta_append_nomem(BranchCtx(b),
                                 CreateRec(DAXFS_DELTA_CREATE, dir, new_ino,
                                           FileMode, name)),
        [NoOp EXCEPT !.op = "create", !.b = b, !.dir = dir,
                     !.name = name, !.ino = new_ino])
  /\ i_size' = IF last'.ret = 0 THEN [i_size EXCEPT ![b][new_ino] = 0] ELSE i_size
  /\ UNCHANGED branchVars

\* daxfs_write_iter, the kzalloc(GFP_ATOMIC) of its index update failing
daxfs_write_iter_nomem(b, ino, pos, data) ==
  LET len == Len(data)
      a == daxfs_delta_alloc(BranchCtx(b), SIZEOF_HDR + SIZEOF_WRITE + len)
      logged == [a.ctx EXCEPT !.log = Append(@, WriteRec(ino, pos, data))]
      done(ret) == last' = [NoOp EXCEPT !.op = "write", !.b = b, !.ino = ino,
                              !.pos = pos, !.data = data, !.ret = ret]
  IN
  /\ len > 0
  /\ Step
  /\ IF a.ptr = NULL
     THEN done(-ENOSPC) /\ UNCHANGED <<logVars, i_size>>
     ELSE /\ done(len)
          /\ i_size' = [i_size EXCEPT ![b][ino] = Max(ISize(b, ino), pos + len)]
          /\ StoreCtx(b, [logged EXCEPT !.inode =
                 IF ino \in DOMAIN @
                 THEN [@ EXCEPT ![ino].hdr = a.ptr,
                                ![ino].size = IF pos + len > @ THEN pos + len ELSE @]
                 ELSE @])
  /\ UNCHANGED <<branchVars, next_local_ino, next_inode_id>>

NomemFork == nops < MaxNomemOps /\ \E p \in Branches : daxfs_branch_create(p)
NomemCreate == nops < MaxNomemOps /\ \E b \in Live : \E n \in {"n1", "n2"} :
                 \E fail \in BOOLEAN :
                    IF fail THEN daxfs_create_nomem(b, DAXFS_ROOT_INO, n)
                    ELSE daxfs_create(b, DAXFS_ROOT_INO, n)
NomemWrite == nops < MaxNomemOps /\ \E b \in Live : \E i \in Files(b) :
                \E pos \in 0..MaxPos, c \in Bytes, fail \in BOOLEAN :
                   IF fail THEN daxfs_write_iter_nomem(b, i, pos, <<c>>)
                   ELSE daxfs_write_iter(b, i, pos, <<c>>, FALSE)

NomemNext == NomemFork \/ NomemCreate \/ NomemWrite

NomemSpec == Init /\ [][NomemNext]_vars

(* ------------------------------------------------------------------ *)
(* A record header of the DAX region read back damaged: its total_size  *)
(* runs past the end of the log                                         *)
(* ------------------------------------------------------------------ *)
MaxCorruptOps == 5

\* the scan of daxfs_delta_build_index would stop inside this log
Overruns(log, size) ==
  \E i \in 1..Len(log) :
     log[i].total_size = 0 \/ StartOf(log, i) + log[i].total_size > size

\* the last record of the branch's log gets a total_size past the log's end
CorruptRecord(b) ==
  /\ delta_log[b] # <<>>
  /\ ~Overruns(delta_log[b], delta_size[b])
  /\ Step
  /\ delta_log' = [delta_log EXCEPT
                     ![b][Len(delta_log[b])].total_size = @ + delta_capacity[b]]
  /\ last' = [NoOp EXCEPT !.op = "corrupt", !.b = b]
  /\ UNCHANGED <<branchVars, delta_size, on_dax_delta_log_size, inode_index,
                 dirent_index, next_local_ino, next_inode_id, i_size>>

CorruptFork == nops < MaxCorruptOps /\ \E p \in Branches : daxfs_branch_create(p)
\* the damage is met by the next rebuild: nothing is appended behind it
CorruptCreate == nops < MaxCorruptOps /\ \E b \in Live : \E n \in {"n1", "n2"} :
                   /\ ~Overruns(delta_log[b], delta_size[b])
                   /\ daxfs_create(b, DAXFS_ROOT_INO, n)
Corrupt == nops < MaxCorruptOps /\ \E b \in Live : CorruptRecord(b)
CorruptCommit == nops < MaxCorruptOps /\ \E c \in Mounts : daxfs_branch_commit(c)

CorruptNext == CorruptFork \/ CorruptCreate \/ Corrupt \/ CorruptCommit

CorruptSpec == Init /\ [][CorruptNext]_vars

(* ------------------------------------------------------------------ *)
(* Commits into a parent whose log is nearly full: renames only, six    *)
(* operations                                                           *)
(* ------------------------------------------------------------------ *)
MaxFullOps == 6

FullFork == nops < MaxFullOps /\ \E p \in Branches : daxfs_branch_create(p)
FullRename == nops < MaxFullOps /\ \E b \in Live :
                daxfs_rename(b, DAXFS_ROOT_INO, "f0", DAXFS_ROOT_INO, "n2", 0)
FullCommit == nops < MaxFullOps /\ \E c \in Mounts : daxfs_branch_commit(c)

FullNext == FullFork \/ FullRename \/ FullCommit

FullSpec == Init /\ [][FullNext]_vars

(* ------------------------------------------------------------------ *)
(* daxfs_delta_build_index run again over indices it has just built     *)
(* ------------------------------------------------------------------ *)
MaxRebuildOps == 6

\* free both indices of the branch and scan its log (the end of a merge)
BuildIndex(b) ==
  /\ Step
  /\ LET IX == daxfs_delta_build_index([AllIndex EXCEPT ![b] = EmptyIndex],
                                       b, delta_log, delta_size)
     IN /\ inode_index' = [x \in Branches |-> IX[x].inode]
        /\ dirent_index' = [x \in Branches |-> IX[x].dirent]
  /\ last' = [NoOp EXCEPT !.op = "build", !.b = b]
  /\ UNCHANGED <<branchVars, delta_log, delta_size, on_dax_delta_log_size,
                 next_local_ino, next_inode_id, i_size>>

\* scan the log once more over the indices the last scan left
RebuildIndex(b) ==
  /\ last.op \in {"build", "rebuild"} /\ last.b = b
  /\ Step
  /\ LET IX == daxfs_delta_build_index(AllIndex, b, delta_log, delta_size)
     IN /\ inode_index' = [x \in Branches |-> IX[x].inode]
        /\ dirent_index' = [x \in Branches |-> IX[x].dirent]
  /\ last' = [NoOp EXCEPT !.op = "rebuild", !.b = b]
  /\ UNCHANGED <<branchVars, delta_log, delta_size, on_dax_delta_log_size,
                 next_local_ino, next_inode_id, i_size>>

RebuildFork == nops < MaxRebuildOps /\ \E p \in Branches : daxfs_branch_create(p)
RebuildCreate == nops < MaxRebuildOps /\ \E b \in Live : \E n \in NewNames :
                   daxfs_create(b, DAXFS_ROOT_INO, n)
RebuildUnlink == nops < MaxRebuildOps /\ \E b \in Live : \E n \in {"f0", "n1"} :
                   daxfs_unlink(b, DAXFS_ROOT_INO, n)
RebuildWrite == nops < MaxRebuildOps /\ \E b \in Live : \E i \in Files(b) :
                  \E pos \in 0..MaxPos : daxfs_write_iter(b, i, pos, <<"A">>, FALSE)
RebuildSetattr == nops < MaxRebuildOps /\ \E b \in Live : \E i \in Files(b) :
                    daxfs_setattr(b, i, DAXFS_ATTR_MODE, 0, AltMode)
RebuildBuild == nops < MaxRebuildOps /\ \E b \in Live : BuildIndex(b)
RebuildAgain == nops < MaxRebuildOps /\ \E b \in Live : RebuildIndex(b)

RebuildNext == \/ RebuildFork \/ RebuildCreate \/ RebuildUnlink \/ RebuildWrite
               \/ RebuildSetattr \/ RebuildBuild \/ RebuildAgain

RebuildSpec == Init /\ [][RebuildNext]_vars

(* ------------------------------------------------------------------ *)
(* Threads inside daxfs_mem_alloc_region, one statement per step        *)
(* ------------------------------------------------------------------ *)
MaxAllocOps == 4

\* the rest of the file system, which no allocator statement touches
restVars == <<state, parent_id, invalidated, refcount, delta_log_offset,
              delta_capacity, next_local_ino, next_inode_id, i_size>>

\* fault: a lock that lets every thread in
spin_lock_never_waits(lock) == TRUE

\* spin_lock() returns only when no thread holds the lock
spin_lock(lock) == lock = 0

Goto(t, label) == pc' = [pc EXCEPT ![t] = label]

\* a thread enters daxfs_mem_alloc_region(info, size)
AllocCall(t, size) ==
  /\ pc[t] = "idle"
  /\ nops' = nops + 1
  /\ loc' = [loc EXCEPT ![t] = [NoLocals EXCEPT !.op = "alloc_region",
                                                !.size = size]]
  /\ Goto(t, "ar_lock")
  /\ UNCHANGED <<restVars, logVars, delta_alloc_offset, super_delta_alloc_offset,
                 alloc_lock, index_lock, slots, last>>

\* the statements of daxfs_mem_alloc_region, by program counter
daxfs_mem_alloc_region_stmt(t) ==
  /\ UNCHANGED <<restVars, logVars, index_lock, nops>>
  /\ \/ /\ pc[t] = "ar_lock"                 \* spin_lock(&info->alloc_lock)
        /\ spin_lock(alloc_lock)
        /\ alloc_lock' = t
        /\ Goto(t, "ar_read")
        /\ UNCHANGED <<loc, delta_alloc_offset, super_delta_alloc_offset,
                       slots, last>>
     \/ /\ pc[t] = "ar_read"                 \* offset = ...; end = ...; if (end > region_end)
        /\ loc' = [loc EXCEPT ![t].offset = delta_alloc_offset,
                              ![t].end = delta_alloc_offset + loc[t].size]
        /\ Goto(t, IF delta_alloc_offset + loc[t].size
                        > DeltaRegionOffset + DeltaRegionSize
                    THEN "ar_full" ELSE "ar_store_info")
        /\ UNCHANGED <<alloc_lock, delta_alloc_offset, super_delta_alloc_offset,
                       slots, last>>
     \/ /\ pc[t] = "ar_full"                 \* spin_unlock; return 0
        /\ alloc_lock' = 0
        /\ loc' = [loc EXCEPT ![t] = NoLocals]
        /\ last' = [NoOp EXCEPT !.op = "alloc_region", !.b = t, !.ret = 0,
                                !.pos = loc[t].size]
        /\ Goto(t, "idle")
        /\ UNCHANGED <<delta_alloc_offset, super_delta_alloc_offset, slots>>
     \/ /\ pc[t] = "ar_store_info"           \* info->delta_alloc_offset = end
        /\ delta_alloc_offset' = loc[t].end
        /\ Goto(t, "ar_store_super")
        /\ UNCHANGED <<loc, alloc_lock, super_delta_alloc_offset, slots, last>>
     \/ /\ pc[t] = "ar_store_super"          \* info->super->delta_alloc_offset = end
        /\ super_delta_alloc_offset' = loc[t].end
        /\ Goto(t, "ar_unlock")
        /\ UNCHANGED <<loc, alloc_lock, delta_alloc_offset, slots, last>>
     \/ /\ pc[t] = "ar_unlock"               \* spin_unlock; return offset
        /\ alloc_lock' = 0
        /\ slots' = [slots EXCEPT ![0] = Append(@, [t |-> t, off |-> loc[t].offset,
                                                     size |-> loc[t].size])]
        /\ loc' = [loc EXCEPT ![t] = NoLocals]
        /\ last' = [NoOp EXCEPT !.op = "alloc_region", !.b = t,
                                !.ret = loc[t].offset, !.pos = loc[t].size]
        /\ Goto(t, "idle")
        /\ UNCHANGED <<delta_alloc_offset, super_delta_alloc_offset>>

AllocEnter == nops < MaxAllocOps /\ \E t \in Threads :
                \E size \in {BranchCapacity \div 2, BranchCapacity, 2 * BranchCapacity} :
                   AllocCall(t, size)
AllocStep == \E t \in Threads : daxfs_mem_alloc_region_stmt(t)

AllocNext == AllocEnter \/ AllocStep

AllocSpec == Init /\ [][AllocNext]_vars

(* ------------------------------------------------------------------ *)
(* Threads inside daxfs_delta_append and daxfs_delta_merge, one         *)
(* statement per step.  A range handed out by daxfs_delta_alloc holds   *)
(* zero bytes (blank records) until its owner writes it.                *)
(* ------------------------------------------------------------------ *)
MaxAppendOps == 5

\* the branch table and counters, which no statement below touches
tableVars == <<parent_id, invalidated, refcount, delta_log_offset, delta_capacity,
               next_local_ino, next_inode_id, i_size, delta_alloc_offset,
               super_delta_alloc_offset>>

\* a thread has left its call
Return(t, op, b, ret) ==
  /\ pc' = [pc EXCEPT ![t] = "idle"]
  /\ loc' = [loc EXCEPT ![t] = NoLocals]
  /\ last' = [NoOp EXCEPT !.op = op, !.b = b, !.ret = ret, !.ino = t]

\* a thread enters daxfs_delta_append(branch, type, ino, data, data_len) on
\* the branch of a writable mount
AppendCall(t, b, rec) ==
  /\ pc[t] = "idle"
  /\ Mounted(b) /\ state[b] = DAXFS_BRANCH_ACTIVE
  /\ nops' = nops + 1
  /\ loc' = [loc EXCEPT ![t] = [NoLocals EXCEPT !.op = "append", !.b = b,
                                  !.rec = rec, !.size = rec.total_size, !.n = 1]]
  /\ Goto(t, "da_lock")
  /\ UNCHANGED <<state, tableVars, logVars, alloc_lock, index_lock, slots, last>>

\* the statements of daxfs_delta_alloc(info, branch, size), by program counter
daxfs_delta_alloc_stmt(t) ==
  LET b == loc[t].b IN
  /\ UNCHANGED <<state, tableVars, inode_index, dirent_index, index_lock, nops>>
  /\ \/ /\ pc[t] = "da_lock"                 \* spin_lock(&info->alloc_lock)
        /\ spin_lock(alloc_lock)
        /\ alloc_lock' = t
        /\ Goto(t, "da_check")
        /\ UNCHANGED <<loc, delta_log, delta_size, on_dax_delta_log_size, slots, last>>
     \/ /\ pc[t] = "da_check"                \* new_size = ...; if (new_size > capacity)
        /\ loc' = [loc EXCEPT ![t].end = delta_size[b] + loc[t].size]
        /\ Goto(t, IF delta_size[b] + loc[t].size > delta_capacity[b]
                    THEN "da_full" ELSE "da_bump")
        /\ UNCHANGED <<alloc_lock, delta_log, delta_size, on_dax_delta_log_size,
                       slots, last>>
     \/ /\ pc[t] = "da_full"                 \* spin_unlock; return NULL
        /\ alloc_lock' = 0
        /\ Return(t, loc[t].op, b, -ENOSPC)
        /\ UNCHANGED <<delta_log, delta_size, on_dax_delta_log_size, slots>>
     \/ /\ pc[t] = "da_bump"                 \* ptr = ...; branch->delta_size = new_size
        /\ loc' = [loc EXCEPT ![t].offset = delta_size[b],
                              ![t].slot = Len(delta_log[b]) + 1]
        /\ delta_size' = [delta_size EXCEPT ![b] = loc[t].end]
        /\ delta_log' = [delta_log EXCEPT
                           ![b] = @ \o [i \in 1..loc[t].n |-> BlankRec]]
        /\ Goto(t, "da_persist")
        /\ UNCHANGED <<alloc_lock, on_dax_delta_log_size, slots, last>>
     \/ /\ pc[t] = "da_persist"              \* branch->on_dax->delta_log_size = new_size
        /\ on_dax_delta_log_size' = [on_dax_delta_log_size EXCEPT ![b] = loc[t].end]
        /\ Goto(t, "da_unlock")
        /\ UNCHANGED <<loc, alloc_lock, delta_log, delta_size, slots, last>>
     \/ /\ pc[t] = "da_unlock"               \* spin_unlock; return ptr
        /\ alloc_lock' = 0
        /\ slots' = [slots EXCEPT ![b] = Append(@, [t |-> t, off |-> loc[t].offset,
                                                     size |-> loc[t].size])]
        /\ Goto(t, IF loc[t].op = "append" THEN "ap_hdr" ELSE "mg_copy")
        /\ UNCHANGED <<loc, delta_log, delta_size, on_dax_delta_log_size, last>>

\* the statements of daxfs_delta_append behind the allocation
daxfs_delta_append_stmt(t) ==
  LET b == loc[t].b
      rec == loc[t].rec
      ix == [inode |-> inode_index[b], dirent |-> dirent_index[b]]
  IN
  /\ UNCHANGED <<state, tableVars, delta_size, on_dax_delta_log_size, alloc_lock,
                 slots, nops>>
  /\ \/ /\ pc[t] = "ap_hdr"                  \* hdr->type, total_size, ino = ...
        /\ delta_log' = [delta_log EXCEPT ![b][loc[t].slot] =
                           [BlankRec EXCEPT !.type = rec.type,
                                            !.total_size = rec.total_size,
                                            !.ino = rec.ino]]
        /\ Goto(t, "ap_body")
        /\ UNCHANGED <<loc, inode_index, dirent_index, index_lock, last>>
     \/ /\ pc[t] = "ap_body"                 \* memcpy(entry + sizeof(*hdr), data, ...)
        /\ delta_log' = [delta_log EXCEPT ![b][loc[t].slot] = rec]
        /\ Goto(t, "ai_lock")
        /\ UNCHANGED <<loc, inode_index, dirent_index, index_lock, last>>
     \/ /\ pc[t] = "ai_lock"                 \* index_add_inode: spin_lock_irqsave
        /\ spin_lock(index_lock[b])
        /\ index_lock' = [index_lock EXCEPT ![b] = t]
        /\ Goto(t, "ai_update")
        /\ UNCHANGED <<loc, delta_log, inode_index, dirent_index, last>>
     \/ /\ pc[t] = "ai_update"               \* insert or update; spin_unlock_irqrestore
        /\ inode_index' = [inode_index EXCEPT
                             ![b] = IndexRecord(ix, rec, loc[t].offset).inode]
        /\ index_lock' = [index_lock EXCEPT ![b] = 0]
        /\ Goto(t, "ad_lock")
        /\ UNCHANGED <<loc, delta_log, dirent_index, last>>
     \/ /\ pc[t] = "ad_lock"                 \* index_add_dirent: spin_lock_irqsave
        /\ spin_lock(index_lock[b])
        /\ index_lock' = [index_lock EXCEPT ![b] = t]
        /\ Goto(t, "ad_update")
        /\ UNCHANGED <<loc, delta_log, inode_index, dirent_index, last>>
     \/ /\ pc[t] = "ad_update"               \* insert or update; unlock; return 0
        /\ dirent_index' = [dirent_index EXCEPT
                              ![b] = IndexRecord(ix, rec, loc[t].offset).dirent]
        /\ index_lock' = [index_lock EXCEPT ![b] = 0]
        /\ Return(t, "append", b, 0)
        /\ UNCHANGED <<delta_log, inode_index>>

\* a thread enters daxfs_delta_merge(parent, child); the child is quiescent
\* and is merged once
MergeCall(t, c) ==
  /\ pc[t] = "idle"
  /\ state[c] = DAXFS_BRANCH_ACTIVE /\ parent_id[c] # 0
  /\ state[parent_id[c]] = DAXFS_BRANCH_ACTIVE
  /\ \A u \in Threads : loc[u].b # c /\ loc[u].c # c
  /\ \A x \in Branches : state[x] = DAXFS_BRANCH_ACTIVE => parent_id[x] # c
  /\ nops' = nops + 1
  /\ loc' = [loc EXCEPT ![t] = [NoLocals EXCEPT !.op = "merge", !.b = parent_id[c],
                                  !.c = c, !.size = delta_size[c],
                                  !.n = Len(delta_log[c])]]
  /\ Goto(t, "mg_check")
  /\ UNCHANGED <<state, tableVars, logVars, alloc_lock, index_lock, slots, last>>

\* the statements of daxfs_delta_merge around its call of daxfs_delta_alloc.
\* The scan of daxfs_delta_build_index takes one step per record; its
\* recursion into the parent's parent finds nothing to index here.  The
\* caller marks the merged child COMMITTED.
daxfs_delta_merge_stmt(t) ==
  LET p == loc[t].b
      c == loc[t].c
      i == loc[t].i
      ix == [inode |-> inode_index[p], dirent |-> dirent_index[p]]
      ends == \/ loc[t].scan >= delta_size[p]
              \/ i > Len(delta_log[p])
              \/ delta_log[p][i].total_size = 0
              \/ loc[t].scan + delta_log[p][i].total_size > delta_size[p]
  IN
  /\ UNCHANGED <<tableVars, delta_size, on_dax_delta_log_size, alloc_lock, slots,
                 nops>>
  /\ \/ /\ pc[t] = "mg_check"                \* child_size == 0; parent has space?
        /\ IF loc[t].size = 0
           THEN /\ Return(t, "merge", c, 0)
                /\ state' = [state EXCEPT ![c] = DAXFS_BRANCH_COMMITTED]
           ELSE IF delta_size[p] + loc[t].size > delta_capacity[p]
           THEN Return(t, "merge", c, -ENOSPC) /\ UNCHANGED state
           ELSE Goto(t, "da_lock") /\ UNCHANGED <<loc, last, state>>
        /\ UNCHANGED <<delta_log, inode_index, dirent_index, index_lock>>
     \/ /\ pc[t] = "mg_copy"                 \* memcpy(dest, child->delta_log, child_size)
        /\ delta_log' = [delta_log EXCEPT ![p] =
              [k \in 1..Len(@) |->
                 IF k >= loc[t].slot /\ k < loc[t].slot + loc[t].n
                 THEN delta_log[c][k - loc[t].slot + 1] ELSE @[k]]]
        /\ Goto(t, "mg_free_inode")
        /\ UNCHANGED <<loc, last, state, inode_index, dirent_index, index_lock>>
     \/ /\ pc[t] = "mg_free_inode"           \* free_inode_index(parent)
        /\ inode_index' = [inode_index EXCEPT ![p] = EmptyInodeIndex]
        /\ Goto(t, "mg_free_dirent")
        /\ UNCHANGED <<loc, last, state, delta_log, dirent_index, index_lock>>
     \/ /\ pc[t] = "mg_free_dirent"          \* free_dirent_index(parent)
        /\ dirent_index' = [dirent_index EXCEPT ![p] = EmptyDirentIndex]
        /\ loc' = [loc EXCEPT ![t].i = 1, ![t].scan = 0]
        /\ Goto(t, "mg_build")
        /\ UNCHANGED <<last, state, delta_log, inode_index, index_lock>>
     \/ /\ pc[t] = "mg_build"                \* daxfs_delta_build_index: one record
        /\ IF ends
           THEN /\ Return(t, "merge", c, 0)
                /\ state' = [state EXCEPT ![c] = DAXFS_BRANCH_COMMITTED]
                /\ UNCHANGED <<inode_index, dirent_index>>
           ELSE /\ spin_lock(index_lock[p])
                /\ inode_index' = [inode_index EXCEPT
                      ![p] = IndexRecord(ix, delta_log[p][i], loc[t].scan).inode]
                /\ dirent_index' = [dirent_index EXCEPT
                      ![p] = IndexRecord(ix, delta_log[p][i], loc[t].scan).dirent]
                /\ loc' = [loc EXCEPT ![t].i = i + 1,
                                      ![t].scan = @ + delta_log[p][i].total_size]
                /\ UNCHANGED <<pc, last, state>>
        /\ UNCHANGED <<delta_log, index_lock>>

\* a thread enters daxfs_resolve_inode(sb, ino) on the mount of branch b
ResolveCall(t, b, ino) ==
  /\ pc[t] = "idle"
  /\ state[b] = DAXFS_BRANCH_ACTIVE
  /\ nops' = nops + 1
  /\ loc' = [loc EXCEPT ![t] = [NoLocals EXCEPT !.op = "resolve", !.b = b,
                                                !.ino = ino]]
  /\ Goto(t, "ri_deleted_lock")
  /\ UNCHANGED <<state, tableVars, logVars, alloc_lock, index_lock, slots, last>>

\* the statements of the chain walk of daxfs_resolve_inode.  No DELETE record
\* is appended by a thread, so the type test of the record found is false.
daxfs_resolve_inode_stmt(t) ==
  LET b == loc[t].b
      ino == loc[t].ino
      up == IF parent_id[b] = 0
            THEN Return(t, "resolve", b, -ENOENT)
            ELSE /\ loc' = [loc EXCEPT ![t].b = parent_id[b]]
                 /\ Goto(t, "ri_deleted_lock")
                 /\ UNCHANGED last
  IN
  /\ UNCHANGED <<state, tableVars, logVars, alloc_lock, slots, nops>>
  /\ \/ /\ pc[t] = "ri_deleted_lock"         \* daxfs_delta_is_deleted: spin_lock_irqsave
        /\ spin_lock(index_lock[b])
        /\ index_lock' = [index_lock EXCEPT ![b] = t]
        /\ Goto(t, "ri_deleted")
        /\ UNCHANGED <<loc, last>>
     \/ /\ pc[t] = "ri_deleted"              \* walk; spin_unlock_irqrestore
        /\ index_lock' = [index_lock EXCEPT ![b] = 0]
        /\ IF daxfs_delta_is_deleted(inode_index[b], ino)
           THEN Return(t, "resolve", b, 0)
           ELSE Goto(t, "ri_lookup_lock") /\ UNCHANGED <<loc, last>>
     \/ /\ pc[t] = "ri_lookup_lock"          \* daxfs_delta_lookup_inode: spin_lock_irqsave
        /\ spin_lock(index_lock[b])
        /\ index_lock' = [index_lock EXCEPT ![b] = t]
        /\ Goto(t, "ri_lookup")
        /\ UNCHANGED <<loc, last>>
     \/ /\ pc[t] = "ri_lookup"               \* walk; spin_unlock_irqrestore; if (hdr)
        /\ index_lock' = [index_lock EXCEPT ![b] = 0]
        /\ IF daxfs_delta_lookup_inode(inode_index[b], ino) # NULL
           THEN Goto(t, "ri_walk") /\ UNCHANGED <<loc, last>>
           ELSE up
     \/ /\ pc[t] = "ri_walk"                 \* node = b->inode_index.rb_node; while (node)
        /\ IF ino \in DOMAIN inode_index[b]
           THEN Return(t, "resolve", b, inode_index[b][ino].mode)
           ELSE up
        /\ UNCHANGED index_lock

AppendRecs == {CreateRec(DAXFS_DELTA_CREATE, DAXFS_ROOT_INO, 4, FileMode, "n1"),
               CreateRec(DAXFS_DELTA_MKDIR, DAXFS_ROOT_INO, 5, DirPerm + S_IFDIR, "n2")}

AppendFork == /\ nops < MaxAppendOps
              /\ \A t \in Threads : pc[t] = "idle"
              /\ \E p \in Branches : daxfs_branch_create(p)
AppendEnter == nops < MaxAppendOps /\ \E t \in Threads : \E b \in Branches :
                 \E rec \in AppendRecs : AppendCall(t, b, rec)
MergeEnter == nops < MaxAppendOps /\ \E t \in Threads : \E c \in Branches :
                MergeCall(t, c)
ResolveEnter == nops < MaxAppendOps /\ \E t \in Threads : \E b \in Branches :
                  ResolveCall(t, b, 4)
AllocStmt == \E t \in Threads : daxfs_delta_alloc_stmt(t)
AppendStmt == \E t \in Threads : daxfs_delta_append_stmt(t)
MergeStmt == \E t \in Threads : daxfs_delta_merge_stmt(t)
ResolveStmt == \E t \in Threads : daxfs_resolve_inode_stmt(t)

AppendNext == \/ AppendFork \/ AppendEnter \/ MergeEnter
              \/ AllocStmt \/ AppendStmt \/ MergeStmt

AppendSpec == Init /\ [][AppendNext]_vars

LockNext == AppendNext \/ ResolveEnter \/ ResolveStmt

LockSpec == Init /\ [][LockNext]_vars

(* ------------------------------------------------------------------ *)
(* Threads inside daxfs_create and daxfs_mkdir of one mount.  The VFS   *)
(* holds the directory's lock around the call, so two calls run at once *)
(* only in different directories.  The append runs to its end in one    *)
(* step.                                                                *)
(* ------------------------------------------------------------------ *)
MaxIdOps == 4

\* a thread enters daxfs_create or daxfs_mkdir: the name check
CreateCall(t, b, dir, name, type, mode, op) ==
  /\ pc[t] = "idle"
  /\ Mounted(b) /\ ~invalidated[b]
  /\ IsDir(b, dir)
  /\ \A u \in Threads : pc[u] # "idle" => loc[u].rec.parent_ino # dir
  /\ nops' = nops + 1
  /\ IF daxfs_name_exists(b, dir, name).exists
     THEN /\ last' = [NoOp EXCEPT !.op = op, !.b = b, !.dir = dir,
                                  !.name = name, !.ret = -EEXIST]
          /\ UNCHANGED <<pc, loc>>
     ELSE /\ loc' = [loc EXCEPT ![t] = [NoLocals EXCEPT !.op = op, !.b = b,
                         !.rec = CreateRec(type, dir, 0, mode, name)]]
          /\ Goto(t, "cr_alloc")
          /\ UNCHANGED last
  /\ UNCHANGED <<branchVars, logVars, next_local_ino, next_inode_id, i_size,
                 alloc_lock, index_lock, slots>>

\* the statements of daxfs_create / daxfs_mkdir behind the name check
daxfs_create_stmt(t) ==
  LET b == loc[t].b
      rec == loc[t].rec
  IN
  /\ UNCHANGED <<branchVars, alloc_lock, index_lock, slots, nops>>
  /\ \/ /\ pc[t] = "cr_alloc"                \* new_ino = daxfs_alloc_ino(branch)
        /\ loc' = [loc EXCEPT ![t].ino = daxfs_alloc_ino(b),
                              ![t].rec.new_ino = daxfs_alloc_ino(b),
                              ![t].rec.ino = daxfs_alloc_ino(b)]
        /\ next_local_ino' = [next_local_ino EXCEPT ![b] = @ + 1]
        /\ Goto(t, "cr_test")
        /\ UNCHANGED <<logVars, next_inode_id, i_size, last>>
     \/ /\ pc[t] = "cr_test"                 \* if (new_ino >= super->next_inode_id)
        /\ Goto(t, IF loc[t].ino >= next_inode_id THEN "cr_store" ELSE "cr_append")
        /\ UNCHANGED <<logVars, next_local_ino, next_inode_id, i_size, loc, last>>
     \/ /\ pc[t] = "cr_store"                \* super->next_inode_id = new_ino + 1
        /\ next_inode_id' = loc[t].ino + 1
        /\ Goto(t, "cr_append")
        /\ UNCHANGED <<logVars, next_local_ino, i_size, loc, last>>
     \/ /\ pc[t] = "cr_append"               \* daxfs_delta_append; daxfs_new_inode
        /\ AppendDone(b, daxfs_delta_append(BranchCtx(b), rec),
                      [NoOp EXCEPT !.op = loc[t].op, !.b = b,
                                   !.dir = rec.parent_ino, !.name = rec.name,
                                   !.ino = loc[t].ino])
        /\ i_size' = IF last'.ret = 0 /\ rec.type = DAXFS_DELTA_CREATE
                     THEN [i_size EXCEPT ![b][loc[t].ino] = 0] ELSE i_size
        /\ pc' = [pc EXCEPT ![t] = "idle"]
        /\ loc' = [loc EXCEPT ![t] = NoLocals]
        /\ UNCHANGED <<next_local_ino, next_inode_id>>

IdFork == /\ nops < MaxIdOps
          /\ \A t \in Threads : pc[t] = "idle"
          /\ \E p \in Branches : daxfs_branch_create(p)
IdCreate == nops < MaxIdOps /\ \E t \in Threads : \E b \in Branches :
              \E dir \in {DAXFS_ROOT_INO, 3} : \E name \in {"n1", "n2"} :
                 CreateCall(t, b, dir, name, DAXFS_DELTA_CREATE, FileMode, "create")
IdMkdir == nops < MaxIdOps /\ \E t \in Threads : \E b \in Branches :
             \E dir \in {DAXFS_ROOT_INO, 3} : \E name \in {"n1", "n2"} :
                CreateCall(t, b, dir, name, DAXFS_DELTA_MKDIR,
                           S_IFDIR + DirPerm, "mkdir")
IdStmt == \E t \in Threads : daxfs_create_stmt(t)

IdNext == IdFork \/ IdCreate \/ IdMkdir \/ IdStmt

IdSpec == Init /\ [][IdNext]_vars

(* ------------------------------------------------------------------ *)
(* A file held open across its unlink: the base file f0 is opened on    *)
(* every mount when the mount is made, and written, truncated and       *)
(* chmod-ed through the open file                                       *)
(* ------------------------------------------------------------------ *)
MaxOpenOps == 4

\* the inode of the base file f0
OpenIno == base_inodes[2].ino

OpenFork == nops < MaxOpenOps /\ \E p \in Branches : daxfs_branch_create(p)
OpenCommit == nops < MaxOpenOps /\ \E c \in Mounts : daxfs_branch_commit(c)
OpenUnlink == nops < MaxOpenOps /\ \E b \in Live :
                daxfs_unlink(b, DAXFS_ROOT_INO, "f0")
OpenWrite == nops < MaxOpenOps /\ \E b \in Live : \E pos \in 0..MaxPos :
               daxfs_write_iter(b, OpenIno, pos, <<"A">>, FALSE)
OpenSetattr == nops < MaxOpenOps /\ \E b \in Live :
                 \E v \in {DAXFS_ATTR_SIZE, DAXFS_ATTR_MODE} : \E sz \in 0..MaxPos :
                    daxfs_setattr(b, OpenIno, v, sz, AltMode)

OpenNext == OpenFork \/ OpenCommit \/ OpenUnlink \/ OpenWrite \/ OpenSetattr

OpenSpec == Init /\ [][OpenNext]_vars

(* ------------------------------------------------------------------ *)
(* Threads inside a scan of the delta logs (index build, data           *)
(* resolution, enumeration) and inside a file read, one loop iteration  *)
(* per step.  What a scan reads in a header is the record that starts    *)
(* there or any other value: the log may hold anything.  offset is a u64 *)
(* and total_size a u32; with delta_size bounded by the capacity of the  *)
(* branch the sum does not wrap.  The switch over the record type does  *)
(* not touch offset and is left to BuildScan and IterLog.                *)
(* ------------------------------------------------------------------ *)
MaxScanOps == 4

\* values a damaged header may hold in total_size
ScanSizes == {0, SIZEOF_HDR, SIZEOF_HDR + SIZEOF_WRITE + 1, BranchCapacity + 40}

ScanKinds == {"build_index", "resolve_file_data", "iterate"}

\* fault: no total_size ends the scan
EndOfLog_never(total_size) == FALSE

\* if (total_size == 0) break
EndOfLog(total_size) == total_size = 0

\* total_size = le32_to_cpu(hdr->total_size) with hdr = delta_log + offset
HeaderReads(b, offset) ==
  ScanSizes \cup {delta_log[b][i].total_size :
                    i \in {j \in 1..Len(delta_log[b]) : StartOf(delta_log[b], j) = offset}}

\* a thread enters one of the functions that scan the logs
ScanCall(t, kind, b) ==
  /\ pc[t] = "idle"
  /\ state[b] = DAXFS_BRANCH_ACTIVE
  /\ nops' = nops + 1
  /\ loc' = [loc EXCEPT ![t] = [NoLocals EXCEPT !.op = kind, !.b = b, !.c = b]]
  /\ Goto(t, IF kind = "build_index" THEN "sc_parent" ELSE "sc_test")
  /\ UNCHANGED <<state, tableVars, logVars, alloc_lock, index_lock, slots, last>>

\* the statements of a log scan, by program counter
daxfs_log_scan_stmt(t) ==
  LET b == loc[t].b
      offset == loc[t].offset
      build == loc[t].op = "build_index"
  IN
  /\ UNCHANGED <<state, tableVars, logVars, alloc_lock, index_lock, slots, nops>>
  /\ \/ /\ pc[t] = "sc_parent"               \* if (branch->parent && rb_first(...) == NULL)
        /\ IF parent_id[b] # 0 /\ inode_index[parent_id[b]] = EmptyInodeIndex
           THEN loc' = [loc EXCEPT ![t].b = parent_id[b]] /\ UNCHANGED pc
           ELSE Goto(t, "sc_test") /\ UNCHANGED loc
        /\ UNCHANGED last
     \/ /\ pc[t] = "sc_test"                 \* while (offset < branch->delta_size)
        /\ Goto(t, IF offset < delta_size[b] THEN "sc_hdr" ELSE "sc_up")
        /\ UNCHANGED <<loc, last>>
     \/ /\ pc[t] = "sc_hdr"                  \* total_size = ...; if (...) break
        /\ \E ts \in HeaderReads(b, offset) :
              /\ loc' = [loc EXCEPT ![t].total_size = ts]
              /\ Goto(t, IF EndOfLog(ts) \/ (build /\ offset + ts > delta_size[b])
                          THEN "sc_up" ELSE "sc_next")
        /\ UNCHANGED last
     \/ /\ pc[t] = "sc_next"                 \* the record is used; offset += total_size
        /\ \/ /\ loc' = [loc EXCEPT ![t].offset = @ + loc[t].total_size,
                                    ![t].i = @ + 1]
              /\ Goto(t, "sc_test")
              /\ UNCHANGED last
           \/ /\ ~build                      \* data found, or dir_emit() is full
              /\ Return(t, loc[t].op, b, 0)
     \/ /\ pc[t] = "sc_up"                   \* behind the loop over one log
        /\ IF build
           THEN IF b = loc[t].c
                THEN Return(t, loc[t].op, b, 0)
                ELSE /\ loc' = [loc EXCEPT
                                  ![t].b = CHOOSE x \in ChainSet(loc[t].c) : parent_id[x] = b,
                                  ![t].offset = 0]
                     /\ Goto(t, "sc_test")
                     /\ UNCHANGED last
           ELSE IF parent_id[b] = 0
                THEN Return(t, loc[t].op, b, 0)
                ELSE /\ loc' = [loc EXCEPT ![t].b = parent_id[b], ![t].offset = 0]
                     /\ Goto(t, "sc_test")
                     /\ UNCHANGED last

\* a thread enters daxfs_read_iter(iocb, to) with ki_pos = pos and len bytes
\* of room in the iterator
ReadCall(t, b, ino, pos, len) ==
  /\ pc[t] = "idle"
  /\ Mounted(b) /\ ~invalidated[b]
  /\ nops' = nops + 1
  /\ loc' = [loc EXCEPT ![t] = [NoLocals EXCEPT !.op = "read", !.b = b, !.ino = ino,
                                                !.pos = pos, !.count = len,
                                                !.offset = pos, !.len = len]]
  /\ Goto(t, "rd_clamp")
  /\ UNCHANGED <<state, tableVars, logVars, alloc_lock, index_lock, slots, last>>

\* the statements of daxfs_read_iter, by program counter; loc.offset and
\* loc.len keep the arguments of the call, loc.size the i_size it has read
daxfs_read_iter_stmt(t) ==
  LET b == loc[t].b
      ino == loc[t].ino
      pos == loc[t].pos
      count == loc[t].count
      total == loc[t].total
      r == daxfs_resolve_file_data(b, ino, pos, count)
      chunk == r.out_len
  IN
  /\ UNCHANGED <<state, tableVars, logVars, alloc_lock, index_lock, slots, nops>>
  /\ \/ /\ pc[t] = "rd_clamp"                \* if (pos >= i_size) return 0; clamp count
        /\ IF pos >= ISize(b, ino)
           THEN Return(t, "read", b, 0)
           ELSE /\ loc' = [loc EXCEPT ![t].size = ISize(b, ino),
                                      ![t].count =
                                         IF pos + count > ISize(b, ino)
                                         THEN ISize(b, ino) - pos ELSE count]
                /\ Goto(t, "rd_loop")
                /\ UNCHANGED last
     \/ /\ pc[t] = "rd_loop"                 \* while (count > 0)
        /\ IF count <= 0 \/ r.src = "none" \/ chunk = 0
           THEN Goto(t, "rd_done") /\ UNCHANGED <<loc, last>>
           ELSE \/ /\ loc' = [loc EXCEPT ![t].pos = pos + chunk,
                                         ![t].count = count - chunk,
                                         ![t].total = total + chunk]
                   /\ UNCHANGED <<pc, last>>
                \/ \* copy_to_iter() came up short
                   Return(t, "read", b, IF total # 0 THEN total ELSE -EFAULT)
     \/ /\ pc[t] = "rd_done"                 \* iocb->ki_pos = pos; return total
        /\ Return(t, "read", b, total)

ScanFork == nops < MaxScanOps /\ \E p \in Branches : daxfs_branch_create(p)
ScanWrite == nops < MaxScanOps /\ \E b \in Live : \E pos \in 0..MaxPos :
               daxfs_write_iter(b, OpenIno, pos, <<"A">>, FALSE)
ScanEnter == nops < MaxScanOps /\ \E t \in Threads : \E b \in Branches :
               \E kind \in ScanKinds : ScanCall(t, kind, b)
ReadEnter == nops < MaxScanOps /\ \E t \in Threads : \E b \in Branches :
               \E pos \in 0..(MaxPos + 1) : \E len \in 1..(MaxWriteLen + 1) :
                  ReadCall(t, b, OpenIno, pos, len)
ScanStmt == \E t \in Threads : daxfs_log_scan_stmt(t)
ReadStmt == \E t \in Threads : daxfs_read_iter_stmt(t)

ScanNext == ScanFork \/ ScanWrite \/ ScanEnter \/ ReadEnter \/ ScanStmt \/ ReadStmt

ScanSpec == Init /\ [][ScanNext]_vars

\* a thread inside a scan or a read keeps running
ScanLive ==
  /\ ScanSpec
  /\ \A t \in Threads : WF_vars(daxfs_log_scan_stmt(t)) /\ WF_vars(daxfs_read_iter_stmt(t))

TypeOK == /\ nops \in 0..MaxOps
          /\ \A b \in Branches : delta_size[b] <= delta_capacity[b]

(* ------------------------------------------------------------------ *)
(* Properties                                                           *)
(* ------------------------------------------------------------------ *)
MutOps == {"create", "mkdir", "unlink", "rmdir", "rename", "write", "setattr"}

\* C1: a mutation issued on a mount bound to branch b leaves the log, the
\* used byte counts (in memory and persisted) and both indices of every
\* other branch, ancestors of b included, exactly as they were.
C1_FrameEffect ==
  [][last'.op \in MutOps =>
       \A o \in Branches \ {last'.b} :
          /\ delta_log'[o] = delta_log[o]
          /\ delta_size'[o] = delta_size[o]
          /\ on_dax_delta_log_size'[o] = on_dax_delta_log_size[o]
          /\ inode_index'[o] = inode_index[o]
          /\ dirent_index'[o] = dirent_index[o]]_vars

\* a mutation has just appended to a branch whose parent branch holds records
C1_Witness ==
  /\ last.op \in MutOps /\ last.ret >= 0
  /\ delta_size[last.b] > 0
  /\ parent_id[last.b] # 0
  /\ delta_size[parent_id[last.b]] > 0

\* everything a mount bound to branch b can observe
MountView(b) ==
  [lookup |-> [d \in Inos, n \in Names |-> daxfs_lookup(b, d, n)],
   stat |-> [i \in Inos |-> daxfs_resolve_inode(b, i)],
   read |-> [i \in Inos |-> daxfs_read_iter(b, i, 0, MaxPos + MaxWriteLen)],
   dir |-> [d \in Inos |-> daxfs_iterate(b, d)]]

\* C2: a mutation in a branch changes no lookup, stat, read or enumeration
\* result of a sibling branch (an active branch forked from the same parent).
C2_SiblingIsolation ==
  [][last'.op \in MutOps =>
       \A b2 \in Siblings(last'.b) : MountView(b2)' = MountView(b2)]_vars

\* two siblings, and a name created in one that the other does not resolve
C2_Witness ==
  /\ last.op \in {"create", "write"} /\ last.ret >= 0
  /\ \E b2 \in Siblings(last.b) :
        /\ delta_size[b2] > 0
        /\ \E n \in NewNames :
              /\ daxfs_lookup(last.b, DAXFS_ROOT_INO, n) > 0
              /\ daxfs_lookup(b2, DAXFS_ROOT_INO, n) = -ENOENT

(* C3 *)
\* every record of the logs on the chain of b is a CREATE, MKDIR or DELETE
OnlyNameRecords(b) ==
  \A a \in ChainSet(b) : \A i \in 1..Len(delta_log[a]) :
     delta_log[a][i].type \in {DAXFS_DELTA_CREATE, DAXFS_DELTA_MKDIR,
                               DAXFS_DELTA_DELETE}

\* the entries of branch a's dirent index for (parent, name)
DirentHolders(a, parent, name) ==
  {k \in 1..Len(dirent_index[a].nodes) :
      /\ dirent_index[a].nodes[k].parent_ino = parent
      /\ dirent_index[a].nodes[k].name = name}

\* the answer of the leaf-most branch holding a record, else of the base image
RECURSIVE LeafMostAnswer(_, _, _, _)
LeafMostAnswer(b, chain, parent, name) ==
  IF chain = <<>>
  THEN LET child == IF parent <= base_inode_count
                    THEN BaseFind(base_inodes[parent].first_child, name) ELSE 0
       IN IF child = 0 THEN -ENOENT
          ELSE IF \E a \in ChainSet(b) :
                     child \in DOMAIN inode_index[a] /\ inode_index[a][child].deleted
          THEN -ENOENT
          ELSE child
  ELSE LET a == Head(chain)
           held == DirentHolders(a, parent, name)
       IN IF held = {} THEN LeafMostAnswer(b, Tail(chain), parent, name)
          ELSE LET k == CHOOSE x \in held : \A y \in held : y <= x
                   rec == HdrAt(delta_log[a], dirent_index[a].nodes[k].hdr)
               IN IF rec.type = DAXFS_DELTA_DELETE THEN -ENOENT ELSE rec.new_ino

\* C3: when the logs of a chain hold only create, mkdir, unlink and rmdir
\* records, lookup(parent, name) on the leaf returns the answer of the
\* leaf-most branch whose dirent index holds a record for (parent, name)
\* (the new inode for CREATE/MKDIR, NOENT for DELETE), and with no such
\* branch the base image child unless a branch of the chain marks it deleted.
C3_LookupLeafMost ==
  \A b \in Branches :
     (state[b] = DAXFS_BRANCH_ACTIVE /\ OnlyNameRecords(b)) =>
        \A parent \in Inos, name \in Names :
           daxfs_lookup(b, parent, name)
             = LeafMostAnswer(b, Chain(b), parent, name)

\* a branch unlinked a base name that its parent still resolves
C3_Witness ==
  /\ last.op = "unlink" /\ last.ret = 0 /\ last.name = "f0"
  /\ OnlyNameRecords(last.b)
  /\ daxfs_lookup(last.b, last.dir, "f0") = -ENOENT
  /\ daxfs_lookup(parent_id[last.b], last.dir, "f0") = last.ino

\* C4: after a successful rename in a branch the old name resolves to NOENT
\* in that branch and the new name resolves to the inode the old name
\* resolved to before.
C4_RenameMovesName ==
  [][(last'.op = "rename" /\ last'.ret = 0) =>
       \A b \in {last'.b} :
       \A d \in {last'.dir}, n \in {last'.name} :
       \A d2 \in {last'.dir2}, n2 \in {last'.name2} :
          /\ daxfs_lookup(b, d, n)' = -ENOENT
          /\ daxfs_lookup(b, d2, n2)' = last'.ino]_vars

\* a rename has just succeeded
C4_Witness == last.op = "rename" /\ last.ret = 0

(* C5 *)
\* the WRITE records of branch b that cover position pos of ino
Covering(b, ino, pos) ==
  {i \in 1..Len(delta_log[b]) :
      /\ delta_log[b][i].type = DAXFS_DELTA_WRITE
      /\ delta_log[b][i].ino = ino
      /\ pos >= delta_log[b][i].offset
      /\ pos < delta_log[b][i].offset + delta_log[b][i].len}

\* the records of a set that successful writes left
Copied(b, recs) ==
  \A i \in recs : \A k \in 1..delta_log[b][i].len : delta_log[b][i].data[k] # Zero

Positions == 0..(MaxPos + MaxWriteLen - 1)

\* C5: when several WRITE records of the mount's branch cover a position
\* inside the file, a read of that position returns the byte of the last
\* appended covering write.
C5_LatestWriteWins ==
  \A b \in Mounts : \A ino \in Files(b) : \A pos \in Positions :
     LET cov == Covering(b, ino, pos) IN
     (cov # {} /\ Copied(b, cov) /\ pos < ISize(b, ino)) =>
        LET wr == delta_log[b][CHOOSE x \in cov : \A y \in cov : y <= x]
        IN daxfs_read_iter(b, ino, pos, 1) = <<wr.data[pos - wr.offset + 1]>>

\* two successful writes of one branch cover the same position of a file
C5_Witness ==
  \E b \in Mounts : \E ino \in Files(b) : \E pos \in Positions :
     /\ Cardinality(Covering(b, ino, pos)) >= 2
     /\ Copied(b, Covering(b, ino, pos))
     /\ pos < ISize(b, ino)

\* C6: after a successful write(pos, data), read(pos, len) on the same
\* branch returns, in its first min(len, |data|) bytes, the first
\* min(len, |data|) bytes of data, whatever was written or truncated before.
C6_WriteReadRoundTrip ==
  [][(last'.op = "write" /\ last'.ret > 0) =>
       \A b \in {last'.b}, ino \in {last'.ino}, pos \in {last'.pos} :
       \A len \in 1..(MaxWriteLen + 1) :
          LET n == Min(len, Len(last'.data)) IN
          /\ Len(daxfs_read_iter(b, ino, pos, len)') >= n
          /\ SubSeq(daxfs_read_iter(b, ino, pos, len)', 1, n)
               = SubSeq(last'.data, 1, n)]_vars

\* a write succeeded on a file the branch had written before
C6_Witness ==
  /\ last.op = "write" /\ last.ret > 0
  /\ \E pos \in Positions : Cardinality(Covering(last.b, last.ino, pos)) >= 2

(* C7 *)
\* the branches of a chain, leaf first, that hold a WRITE covering pos
RECURSIVE CoveringBranches(_, _, _)
CoveringBranches(chain, ino, pos) ==
  IF chain = <<>> THEN <<>>
  ELSE (IF Covering(Head(chain), ino, pos) # {} THEN <<Head(chain)>> ELSE <<>>)
       \o CoveringBranches(Tail(chain), ino, pos)

\* C7: data resolution is leaf-first: when branches of the chain hold a WRITE
\* record of ino covering pos, the bytes come from a covering record of the
\* leaf-most such branch; with no such branch they come from the base image,
\* clamped to the base file size, and past that size there are none.
C7_DataLeafFirst ==
  \A b \in Branches : state[b] = DAXFS_BRANCH_ACTIVE =>
    \A ino \in Inos, pos \in Positions, len \in 1..MaxWriteLen :
      LET r == daxfs_resolve_file_data(b, ino, pos, len)
          held == CoveringBranches(Chain(b), ino, pos)
      IN IF held # <<>>
         THEN /\ r.src = "delta"
              /\ r.branch = Head(held)
              /\ r.rec \in Covering(Head(held), ino, pos)
              /\ r.bytes = SubSeq(delta_log[r.branch][r.rec].data,
                                  pos - delta_log[r.branch][r.rec].offset + 1,
                                  pos - delta_log[r.branch][r.rec].offset + r.out_len)
         ELSE IF ino <= base_inode_count /\ pos < base_inodes[ino].size
         THEN /\ r.src = "base"
              /\ r.out_len = Min(len, base_inodes[ino].size - pos)
              /\ r.bytes = SubSeq(base_inodes[ino].data, pos + 1, pos + r.out_len)
         ELSE r.src = "none" /\ r.out_len = 0

\* a branch and its parent both hold a WRITE covering a position of a base file
C7_Witness ==
  \E b \in Mounts : \E pos \in Positions :
     /\ parent_id[b] \in Mounts
     /\ Covering(b, 2, pos) # {}
     /\ Covering(parent_id[b], 2, pos) # {}
     /\ pos < base_inodes[2].size

C8_CommitKeepsNames ==
  [][(last'.op = "commit" /\ last'.ret = 0) =>
       \A c \in {last'.b} : \A p \in {parent_id[c]} :
       \A d \in Inos, n \in Names :
          daxfs_lookup(p, d, n)' = daxfs_lookup(c, d, n)]_vars

\* a branch that created a file was committed and its parent resolves the name
C8_Witness ==
  /\ last.op = "commit" /\ last.ret = 0
  /\ \E n \in NewNames :
        /\ daxfs_lookup(last.ino, DAXFS_ROOT_INO, n) > 0
        /\ \E i \in 1..Len(delta_log[last.b]) :
              /\ delta_log[last.b][i].type = DAXFS_DELTA_CREATE
              /\ delta_log[last.b][i].name = n

\* C9: after a successful commit of a child into its parent, every read on
\* the parent returns the bytes, and stat the size, that the child returned
\* immediately before the commit.
C9_CommitKeepsData ==
  [][(last'.op = "commit" /\ last'.ret = 0) =>
       \A c \in {last'.b} : \A p \in {parent_id[c]} :
       \A ino \in Files(c) :
          /\ ISize(p, ino)' = ISize(c, ino)
          /\ \A pos \in Positions, len \in 1..MaxWriteLen :
                daxfs_read_iter(p, ino, pos, len)' = daxfs_read_iter(c, ino, pos, len)]_vars

\* a branch was committed after overwriting a position its parent had written
C9_Witness ==
  /\ last.op = "commit" /\ last.ret = 0
  /\ \E ino \in Inos, pos \in Positions :
        /\ Covering(last.b, ino, pos) # {}
        /\ \E i \in Covering(last.ino, ino, pos) :
              i <= Len(delta_log[last.ino]) - Len(delta_log[last.b])

(* C11 *)
\* C11: the mutations of a branch that is aborted are never visible through
\* its parent or a branch forked from the parent later: no mutation changes
\* what a branch outside the mutating branch's subtree observes, the abort
\* changes what no other branch observes, and an aborted branch is on the
\* chain of no active branch.
C11_AbortDiscards ==
  /\ [][last'.op \in MutOps =>
          \A b \in {last'.b} : \A o \in Branches :
             (state[o] = DAXFS_BRANCH_ACTIVE /\ b \notin ChainSet(o)) =>
                MountView(o)' = MountView(o)]_vars
  /\ [][last'.op = "abort" =>
          \A c \in {last'.b} : \A o \in Branches \ {c} :
             state[o] = DAXFS_BRANCH_ACTIVE => MountView(o)' = MountView(o)]_vars
  /\ [](\A o \in Branches : state[o] = DAXFS_BRANCH_ACTIVE =>
          \A a \in ChainSet(o) : state[a] # DAXFS_BRANCH_ABORTED)

\* a branch that created a name was aborted, a branch was forked from its
\* parent afterwards, and the name resolves in neither
C11_Witness ==
  \E c \in Branches, f \in Mounts :
     /\ state[c] = DAXFS_BRANCH_ABORTED
     /\ parent_id[f] = parent_id[c] /\ f > c
     /\ \E i \in 1..Len(delta_log[c]) :
           /\ delta_log[c][i].type = DAXFS_DELTA_CREATE
           /\ daxfs_lookup(f, delta_log[c][i].parent_ino, delta_log[c][i].name) = -ENOENT
           /\ daxfs_lookup(parent_id[c], delta_log[c][i].parent_ino,
                           delta_log[c][i].name) = -ENOENT

C14_LogDense ==
  \A b \in Branches :
     /\ StartOf(delta_log[b], Len(delta_log[b]) + 1) = delta_size[b]
     /\ on_dax_delta_log_size[b] = delta_size[b]
     /\ \A i \in 1..Len(delta_log[b]) : delta_log[b][i].total_size > SIZEOF_HDR

\* a write whose copy from user space failed left its record behind an
\* earlier record of the branch
C14_Witness ==
  /\ last.op = "write" /\ last.ret = -EFAULT
  /\ Len(delta_log[last.b]) >= 2
  /\ delta_size[last.b] > 0

(* C15 *)
\* C15: a create, a mkdir, or a rename with exactly NOREPLACE, that reaches
\* its handler and whose target name resolves on the mount when the call is
\* made, returns EXIST, leaves
\* the log, its size and the indices as they were and draws no inode number.
C15_ExistRefused ==
  [][\A b \in {last'.b} :
       /\ (last'.op \in {"create", "mkdir"} /\ ~invalidated[b]
           /\ \A d \in {last'.dir}, n \in {last'.name} :
                 daxfs_lookup(b, d, n) # -ENOENT)
          => (last'.ret = -EEXIST
              /\ UNCHANGED <<logVars, next_local_ino, next_inode_id>>)
       /\ (last'.op = "rename" /\ last'.flags = RENAME_NOREPLACE
           /\ ~invalidated[b]
           /\ \A d \in {last'.dir2}, n \in {last'.name2} :
                 daxfs_lookup(b, d, n) # -ENOENT)
          => (last'.ret = -EEXIST
              /\ UNCHANGED <<logVars, next_local_ino, next_inode_id>>)]_vars

\* a create of a name that an earlier create of the branch made was refused
C15_Witness ==
  /\ last.op = "create" /\ last.ret = -EEXIST
  /\ \E i \in 1..Len(delta_log[last.b]) :
        /\ delta_log[last.b][i].type = DAXFS_DELTA_CREATE
        /\ delta_log[last.b][i].name = last.name
        /\ delta_log[last.b][i].parent_ino = last.dir
  /\ next_local_ino[last.b] = base_inode_count + 2

(* C16 *)
\* C16: a rename whose flags hold any bit other than NOREPLACE returns INVAL
\* and leaves the branch's log, delta_log_size and both indices unchanged.
C16_RenameFlagsInval ==
  [][(last'.op = "rename" /\ (last'.flags \div 2) % 4 # 0) =>
        /\ last'.ret = -EINVAL
        /\ UNCHANGED logVars]_vars

\* a rename with NOREPLACE and EXCHANGE together, onto a taken name, in a
\* branch that holds a record
C16_Witness ==
  /\ last.op = "rename" /\ last.ret = -EINVAL
  /\ last.flags = RENAME_NOREPLACE + RENAME_EXCHANGE
  /\ daxfs_lookup(last.b, last.dir2, last.name2) # -ENOENT
  /\ delta_log[last.b] # <<>>

(* C17 *)
\* C17: a rename without NOREPLACE onto a name that resolves returns INVAL
\* and appends no record.
C17_RenameOverwriteInval ==
  [][\A b \in {last'.b} :
       (last'.op = "rename" /\ last'.flags = 0
        /\ \A d \in {last'.dir2}, n \in {last'.name2} :
              daxfs_lookup(b, d, n) # -ENOENT)
       => (last'.ret = -EINVAL /\ UNCHANGED logVars)]_vars

\* the rename onto the taken name returned 0 and its RENAME record is the
\* last record of the branch's log
C17_Witness ==
  /\ last.op = "rename" /\ last.flags = 0 /\ last.ret = 0
  /\ daxfs_lookup(last.b, last.dir2, last.name2) \notin {-ENOENT, last.ino}
  /\ delta_log[last.b][Len(delta_log[last.b])].type = DAXFS_DELTA_RENAME

(* C18 *)
\* C18: an append refused because the branch's sub-range is exhausted
\* returns NOSPC and leaves the log, delta_log_size in memory and as
\* persisted, and both indices as they were before that append (for a
\* setattr of size and mode whose second append is refused: as the first
\* append left them); and delta_log_size never exceeds the capacity.
C18_NoSpaceUnchanged ==
  /\ [][(last'.op \in MutOps /\ last'.ret = -ENOSPC) =>
          \A b \in {last'.b}, ino \in {last'.ino}, sz \in {last'.pos} :
             IF /\ last'.op = "setattr"
                /\ last'.flags = DAXFS_ATTR_SIZE + DAXFS_ATTR_MODE
                /\ daxfs_delta_append(BranchCtx(b), TruncateRec(ino, sz)).ret = 0
             THEN StoreCtx(b, daxfs_delta_append(BranchCtx(b),
                                                 TruncateRec(ino, sz)).ctx)
             ELSE UNCHANGED logVars]_vars
  /\ [](\A b \in Branches :
          /\ delta_size[b] <= delta_capacity[b]
          /\ on_dax_delta_log_size[b] <= delta_capacity[b])

\* a create was refused for lack of space in a branch whose log is not empty
C18_Witness ==
  /\ last.op = "create" /\ last.ret = -ENOSPC
  /\ delta_log[last.b] # <<>>
  /\ delta_size[last.b] + SIZEOF_HDR + SIZEOF_CREATE + Len(last.name)
        > delta_capacity[last.b]

(* C19 *)
\* C19: when a record was appended and the index node for its inode could
\* not be allocated (the inode has no entry in the branch's inode index
\* after the call), the operation returns NOMEM.
C19_IndexNomemReported ==
  [][\A b \in {last'.b}, ino \in {last'.ino} :
       (/\ last'.op \in {"create", "write"}
        /\ Len(delta_log'[b]) = Len(delta_log[b]) + 1
        /\ ino \notin DOMAIN inode_index'[b])
       => last'.ret = -ENOMEM]_vars

\* a create returned 0, its record is in the log, and neither index has a
\* node for it: the name just created does not resolve
C19_Witness ==
  /\ last.op = "create" /\ last.ret = 0
  /\ delta_log[last.b][Len(delta_log[last.b])].new_ino = last.ino
  /\ last.ino \notin DOMAIN inode_index[last.b]
  /\ daxfs_lookup(last.b, last.dir, last.name) = -ENOENT

(* C20 *)
\* C20: when the rebuild of an index (here the one a commit runs on the
\* parent after the merge) meets a record whose total_size runs past the
\* end of the log, the operation reports IO and the branch is marked
\* ABORTED.
C20_RebuildReportsIO ==
  [][\A c \in {last'.b} :
       (last'.op = "commit" /\ delta_size[c] > 0
        /\ Overruns(delta_log[c], delta_size[c]))
       => (/\ last'.ret = -EIO
           /\ \E k \in {c, parent_id[c]} : state'[k] = DAXFS_BRANCH_ABORTED)]_vars

\* the commit returned 0, the parent stays ACTIVE with the damaged record in
\* its log, and the name that record created does not resolve there
C20_Witness ==
  /\ last.op = "commit" /\ last.ret = 0
  /\ state[last.ino] = DAXFS_BRANCH_ACTIVE
  /\ Overruns(delta_log[last.ino], delta_size[last.ino])
  /\ \E i \in 1..Len(delta_log[last.ino]) :
        /\ delta_log[last.ino][i].type = DAXFS_DELTA_CREATE
        /\ daxfs_lookup(last.ino, delta_log[last.ino][i].parent_ino,
                        delta_log[last.ino][i].name) = -ENOENT

(* C27 *)
\* the entries the records of one log give to directory d on mount b
ExpectedFromLog(b, branch, d) ==
  LET closer == {Chain(b)[k] : k \in 1..Len(Chain(b))} \
                  {Chain(branch)[k] : k \in 1..Len(Chain(branch))}
      keep(rec) == /\ rec.type \in {DAXFS_DELTA_CREATE, DAXFS_DELTA_MKDIR}
                   /\ rec.parent_ino = d
                   /\ \A c \in closer :
                         ~(rec.new_ino \in DOMAIN inode_index[c]
                           /\ inode_index[c][rec.new_ino].deleted)
      kept == SelectSeq(delta_log[branch], keep)
  IN [k \in 1..Len(kept) |-> [name |-> kept[k].name, ino |-> kept[k].new_ino]]

RECURSIVE ExpectedFromChain(_, _, _)
ExpectedFromChain(b, chain, d) ==
  IF chain = <<>> THEN <<>>
  ELSE ExpectedFromLog(b, Head(chain), d) \o ExpectedFromChain(b, Tail(chain), d)

\* the base children of d no branch of the chain marks deleted
ExpectedFromBase(b, d) ==
  LET keep(e) == /\ e.parent_ino = d
                 /\ \A c \in ChainSet(b) :
                       ~(e.ino \in DOMAIN inode_index[c] /\ inode_index[c][e.ino].deleted)
      kept == SelectSeq(base_inodes, keep)
  IN [k \in 1..Len(kept) |-> [name |-> kept[k].name, ino |-> kept[k].ino]]

\* C27: a complete enumeration of directory d on a mount emits exactly the
\* base children of d that no branch of the chain marks deleted, followed,
\* branch by branch from the leaf to the root, by the CREATE / MKDIR records
\* with parent_ino = d whose new inode no branch strictly closer to the leaf
\* marks deleted.
C27_EnumerationExact ==
  \A b \in Mounts : \A d \in Inos :
     daxfs_iterate(b, d) = ExpectedFromBase(b, d) \o ExpectedFromChain(b, Chain(b), d)

\* a grandchild branch that removed a name its parent branch created: the
\* enumeration of the root there shows the base children and not the name
C27_Witness ==
  \E b \in Mounts :
     /\ parent_id[parent_id[b]] # 0
     /\ \E i \in 1..Len(delta_log[parent_id[b]]) :
           LET rec == delta_log[parent_id[b]][i] IN
           /\ rec.type = DAXFS_DELTA_CREATE /\ rec.parent_ino = DAXFS_ROOT_INO
           /\ rec.new_ino \in DOMAIN inode_index[b]
           /\ inode_index[b][rec.new_ino].deleted
     /\ Len(daxfs_iterate(b, DAXFS_ROOT_INO)) = 2
     /\ Len(daxfs_iterate(parent_id[b], DAXFS_ROOT_INO)) = 3

(* C28 *)
\* the branches of the chain of b that hold an inode-index entry for ino
EntryHolders(b, ino) ==
  {k \in 1..Len(Chain(b)) : ino \in DOMAIN inode_index[Chain(b)[k]]}

\* C28: resolve_inode is decided by the entry of the leaf-most branch of the
\* chain that has one for ino: deleted when that entry is marked deleted,
\* else that entry's mode and size; with no entry in the chain it answers
\* the base inode's mode and size for 1 <= ino <= base_inode_count and NOENT
\* for a larger ino.
C28_ResolveInodeLeafFirst ==
  \A b \in Mounts : \A ino \in Inos :
     LET r == daxfs_resolve_inode(b, ino)
         H == EntryHolders(b, ino)
     IN IF H # {}
        THEN LET e == inode_index[Chain(b)[CHOOSE k \in H : \A j \in H : k <= j]][ino]
             IN /\ r.ret = 0
                /\ r.deleted = e.deleted
                /\ ~e.deleted => (r.mode = e.mode /\ r.size = e.size)
        ELSE IF ino <= base_inode_count
        THEN r = [ret |-> 0, deleted |-> FALSE, mode |-> base_inodes[ino].mode,
                  size |-> base_inodes[ino].size]
        ELSE r.ret = -ENOENT

\* a base file that the parent branch truncated and the grandchild branch
\* changed the mode of: the grandchild's own entry decides
C28_Witness ==
  \E b \in Mounts : \E ino \in 1..base_inode_count :
     /\ parent_id[parent_id[b]] # 0
     /\ ino \in DOMAIN inode_index[b]
     /\ ino \in DOMAIN inode_index[parent_id[b]]
     /\ inode_index[b][ino] # inode_index[parent_id[b]][ino]
     /\ ~inode_index[b][ino].deleted
     /\ daxfs_resolve_inode(b, ino).size = inode_index[b][ino].size

(* C29 *)
\* the WRITE records of ino in a log
WritesOf(log, ino) ==
  {i \in 1..Len(log) : log[i].type = DAXFS_DELTA_WRITE /\ log[i].ino = ino}

\* no record of the log other than a WRITE sets the size of ino
OnlyWritesSize(log, ino) ==
  \A i \in 1..Len(log) :
     \/ log[i].type \in {DAXFS_DELTA_WRITE, DAXFS_DELTA_RENAME}
     \/ (log[i].type \in {DAXFS_DELTA_CREATE, DAXFS_DELTA_MKDIR}
         /\ log[i].new_ino # ino)
     \/ (log[i].type \notin {DAXFS_DELTA_CREATE, DAXFS_DELTA_MKDIR}
         /\ log[i].ino # ino)

\* C29: indexing a WRITE record never makes the size of the inode-index
\* entry smaller: where only WRITE records set the size of ino in a branch,
\* the entry's size is at least offset + len of every one of them.
C29_WriteSizeIsMax ==
  \A b \in Branches : \A ino \in DOMAIN inode_index[b] :
     OnlyWritesSize(delta_log[b], ino) =>
        \A i \in WritesOf(delta_log[b], ino) :
           inode_index[b][ino].size >= delta_log[b][i].offset + delta_log[b][i].len

\* after the commit the parent's rebuilt entry has the end of the last WRITE
\* record, below the end of an earlier one
C29_Witness ==
  /\ last.op = "commit" /\ last.ret = 0
  /\ \E ino \in DOMAIN inode_index[last.ino] :
        LET log == delta_log[last.ino]
            W == WritesOf(log, ino)
        IN /\ OnlyWritesSize(log, ino)
           /\ \E i \in W :
                 /\ \A j \in W : j <= i
                 /\ inode_index[last.ino][ino].size = log[i].offset + log[i].len
           /\ \E i \in W : inode_index[last.ino][ino].size < log[i].offset + log[i].len

(* C24 *)
\* C24: a commit whose child log does not fit behind the parent's log
\* returns NOSPC and leaves the logs, sizes and indices of parent and child
\* (and of every other branch) unchanged; a commit of a child with an empty
\* log returns 0 and changes no log, size or index.
C24_CommitNoSpace ==
  [][last'.op = "commit" =>
       \A c \in {last'.b} :
          /\ delta_size[parent_id[c]] + delta_size[c] > delta_capacity[parent_id[c]]
                => (last'.ret = -ENOSPC /\ UNCHANGED <<logVars, state>>)
          /\ delta_size[c] = 0
                => (last'.ret = 0 /\ UNCHANGED logVars)]_vars

\* the commit of a child with one record into a parent with two was refused
C24_Witness ==
  /\ last.op = "commit" /\ last.ret = -ENOSPC
  /\ Len(delta_log[last.b]) = 1 /\ Len(delta_log[last.ino]) = 2
  /\ dirent_index[last.ino] # EmptyDirentIndex
  /\ state[last.b] = DAXFS_BRANCH_ACTIVE

(* C23 *)
\* what a lookup of (parent_ino, name) finds in a dirent index
DirentFound(T, parent_ino, name) ==
  LET d == DirentDescend(T, T.root, 0, "root",
                         DirentKey(parent_ino, dirent_hash(parent_ino, name)), name)
  IN IF d.found # 0
     THEN <<T.nodes[d.found].hdr, T.nodes[d.found].deleted>>
     ELSE <<NULL, FALSE>>

\* the entries a dirent index holds, in insertion order
DirentEntries(T) ==
  [i \in 1..Len(T.nodes) |->
     <<T.nodes[i].parent_ino, T.nodes[i].name, T.nodes[i].hdr, T.nodes[i].deleted>>]

\* the contents of both indices of a branch
IndexContents(b) ==
  [inode |-> inode_index[b],
   found |-> [d \in Inos, n \in Names |-> DirentFound(dirent_index[b], d, n)],
   entries |-> DirentEntries(dirent_index[b])]

\* C23: a second run of build_index over indices the first run has just
\* built leaves, for every inode, the record pointer, deleted flag, size and
\* mode, and for every (parent, name), the record pointer and deleted flag
\* as they were, and adds or drops no entry; over an empty log both indices
\* stay empty.
C23_BuildIndexIdempotent ==
  [][last'.op = "rebuild" =>
       \A b \in {last'.b} :
          /\ IndexContents(b)' = IndexContents(b)
          /\ delta_log[b] = <<>> =>
                /\ inode_index'[b] = EmptyInodeIndex
                /\ dirent_index'[b] = EmptyDirentIndex]_vars

\* three creates of colliding names were scanned twice: the second scan
\* left four entries
C23_Witness ==
  /\ last.op = "rebuild"
  /\ Len(delta_log[last.b]) = 3
  /\ Len(dirent_index[last.b].nodes) = 4

(* C22 *)
\* the ranges handed out of the delta region lie one behind the other from
\* the first free byte on, and the bump pointer is the end of the last one
\* whenever no thread is between its two stores
Tiled(seq, start, bump) ==
  /\ \A i \in 1..Len(seq) :
        seq[i].off = (IF i = 1 THEN start ELSE seq[i - 1].off + seq[i - 1].size)
  /\ bump = (IF seq = <<>> THEN start
             ELSE seq[Len(seq)].off + seq[Len(seq)].size)

\* C22: under any interleaving of reserve(size) calls on the delta region,
\* each successful call returns the bump pointer it found and advances it by
\* exactly size, so the ranges handed out are pairwise disjoint and inside
\* the region; the bump pointer never decreases; the persisted counter equals
\* the in-memory one whenever no call is inside the allocator; a call with
\* offset + size beyond the region's end returns 0 and stores nothing.
C22_RegionAlloc ==
  /\ [](alloc_lock = 0 =>
          /\ Tiled(slots[0], DeltaRegionOffset + BranchCapacity, delta_alloc_offset)
          /\ super_delta_alloc_offset = delta_alloc_offset)
  /\ [](\A i, j \in 1..Len(slots[0]) :
          /\ slots[0][i].off >= DeltaRegionOffset
          /\ slots[0][i].off + slots[0][i].size <= DeltaRegionOffset + DeltaRegionSize
          /\ i < j => slots[0][i].off + slots[0][i].size <= slots[0][j].off)
  /\ [][/\ delta_alloc_offset' >= delta_alloc_offset
        /\ super_delta_alloc_offset' >= super_delta_alloc_offset
        /\ \A t \in Threads :
             /\ (pc[t] = "ar_unlock" /\ pc'[t] = "idle")
                  => /\ last'.ret + last'.pos = delta_alloc_offset
                     /\ slots'[0][Len(slots'[0])].off = last'.ret
             /\ (pc[t] = "ar_full" /\ pc'[t] = "idle")
                  => /\ last'.ret = 0
                     /\ delta_alloc_offset + last'.pos
                          > DeltaRegionOffset + DeltaRegionSize
                     /\ UNCHANGED <<delta_alloc_offset, super_delta_alloc_offset,
                                    slots>>]_vars

\* two threads were handed a range each, and a third call found the region
\* too small
C22_Witness ==
  /\ Len(slots[0]) = 2
  /\ slots[0][1].t # slots[0][2].t
  /\ last.op = "alloc_region" /\ last.ret = 0 /\ last.pos > 0
  /\ \E t \in Threads : pc[t] = "ar_store_super"

(* C25 *)
\* the thread has been handed a range of the branch's log and is using it
Owns(t) == pc[t] \in {"ap_hdr", "ap_body", "ai_lock", "ai_update", "ad_lock",
                      "ad_update", "mg_copy", "mg_free_inode", "mg_free_dirent",
                      "mg_build"}

\* C25: under any interleaving of appends to one branch and merges into it,
\* every successful allocation owns the range [s, s + total_size) where s is
\* the log size it found under the allocator lock: the ranges of a branch lie
\* one behind the other in the order they were handed out (so they are
\* pairwise disjoint), the last one ends at the log's size, and none reaches
\* past the branch's capacity.
C25_AppendRanges ==
  /\ [](\A b \in Branches :
          /\ alloc_lock = 0 => Tiled(slots[b], 0, delta_size[b])
          /\ \A i, j \in 1..Len(slots[b]) :
                /\ slots[b][i].off + slots[b][i].size <= delta_capacity[b]
                /\ i < j => slots[b][i].off + slots[b][i].size <= slots[b][j].off)
  /\ [](\A t \in Threads : Owns(t) =>
          \E i \in 1..Len(slots[loc[t].b]) :
             slots[loc[t].b][i] = [t |-> t, off |-> loc[t].offset,
                                   size |-> loc[t].size])
  /\ [][\A t \in Threads : (pc[t] = "da_bump" /\ pc'[t] = "da_persist") =>
           /\ alloc_lock = t
           /\ loc'[t].offset = delta_size[loc[t].b]
           /\ delta_size'[loc[t].b] = delta_size[loc[t].b] + loc[t].size]_vars

\* a merge into branch 2 and an append to branch 2 hold a range each
C25_Witness ==
  \E t, u \in Threads :
     /\ loc[t].op = "merge" /\ loc[t].b = 2 /\ pc[t] = "mg_copy"
     /\ loc[u].op = "append" /\ loc[u].b = 2 /\ pc[u] = "ap_hdr"
     /\ Len(slots[2]) = 2
     /\ slots[2][1].t # slots[2][2].t

(* C21 *)
\* header and body of the record are in place
FullyWritten(rec) ==
  /\ rec.type \in {DAXFS_DELTA_CREATE, DAXFS_DELTA_MKDIR}
  /\ rec.name # ""
  /\ rec.total_size = SIZEOF_HDR + SIZEOF_CREATE + Len(rec.name)

\* C21: an append publishes its record by raising delta_log_size only after
\* header and body are written, so whatever value s of the persisted
\* delta_log_size a lock-free reader observes, every record below s is fully
\* written.
C21_PublishedWritten ==
  \A b \in Branches :
     on_dax_delta_log_size[b] = delta_size[b] =>
        \A i \in 1..Len(delta_log[b]) : FullyWritten(delta_log[b][i])

\* one thread between the store of delta_log_size and the store of the
\* header: the persisted size covers 50 bytes of zeros
C21_Witness ==
  \E t \in Threads :
     /\ pc[t] = "ap_hdr" /\ loc[t].b = 2 /\ loc[t].offset = 0
     /\ on_dax_delta_log_size[2] = 50
     /\ delta_log[2] = <<BlankRec>>
     /\ \A u \in Threads \ {t} : pc[u] = "idle"

(* C26 *)
\* the next statement of the thread reads or changes a node of an index tree
InTree(t) == pc[t] \in {"ai_update", "ad_update", "ri_deleted", "ri_lookup",
                        "ri_walk", "mg_free_inode", "mg_free_dirent"}

\* C26: a thread that reads, inserts, updates or removes a node of a branch's
\* index tree holds that branch's index_lock, on every path.
C26_IndexLockHeld ==
  \A t \in Threads : InTree(t) => index_lock[loc[t].b] = t

\* daxfs_resolve_inode walks the inode tree of branch 2 while an append holds
\* the branch's index_lock and is about to insert into that tree
C26_Witness ==
  \E t, u \in Threads :
     /\ pc[t] = "ri_walk" /\ loc[t].b = 2
     /\ pc[u] = "ai_update" /\ loc[u].b = 2
     /\ index_lock[2] = u

(* C30 *)
\* inode numbers the branches have issued
Issued == UNION {(base_inode_count + 1)..(next_local_ino[b] - 1) : b \in Branches}

\* C30: under any interleaving of create and mkdir calls in different
\* directories of one mount, next_inode_id never decreases, and once the
\* calls have returned it is strictly greater than every inode number issued.
C30_NextInodeIdBounds ==
  /\ [][next_inode_id' >= next_inode_id]_vars
  /\ []((\A t \in Threads : pc[t] = "idle") =>
           \A i \in Issued : next_inode_id > i)

\* a create and a mkdir of one mount have both returned 0 and left the
\* global counter at the larger of the two numbers they were given
C30_Witness ==
  /\ \A t \in Threads : pc[t] = "idle"
  /\ last.op \in {"create", "mkdir"} /\ last.ret = 0
  /\ Len(delta_log[2]) = 2
  /\ delta_log[2][1].type # delta_log[2][2].type
  /\ next_local_ino[2] = next_inode_id + 1

(* C31 *)
\* the records of a log that index the name (d, n): a CREATE, MKDIR or DELETE
\* of it, or a RENAME with it on either side
NameRecords(log, d, n) ==
  {i \in 1..Len(log) :
     \/ /\ log[i].type \in {DAXFS_DELTA_CREATE, DAXFS_DELTA_MKDIR,
                            DAXFS_DELTA_DELETE, DAXFS_DELTA_RENAME}
        /\ log[i].parent_ino = d /\ log[i].name = n
     \/ /\ log[i].type = DAXFS_DELTA_RENAME
        /\ log[i].new_parent_ino = d /\ log[i].new_name = n}

\* the log offset of the latest record of that name, NULL when there is none
LatestNameRecord(log, d, n) ==
  IF NameRecords(log, d, n) = {} THEN NULL
  ELSE StartOf(log, CHOOSE i \in NameRecords(log, d, n) :
                       \A j \in NameRecords(log, d, n) : j <= i)

\* C31: in every branch whose indices are in use, lookup_dirent(parent, name)
\* returns the latest record of exactly that name for every name recorded
\* in the branch's log, whatever the order of insertion and also when three
\* or more names have the same combined key, and returns nothing for a name
\* never recorded.
C31_LookupDirentExact ==
  \A b \in Branches : state[b] = DAXFS_BRANCH_ACTIVE =>
     \A d \in Inos : \A n \in Names :
        daxfs_delta_lookup_dirent(dirent_index[b], d, n)
           = LatestNameRecord(delta_log[b], d, n)

\* three names with one combined key were created in one directory of
\* branch 2, and the first of them is not found
C31_Witness ==
  /\ last.op = "create" /\ last.ret = 0 /\ last.b = 2
  /\ Len(dirent_index[2].nodes) = 3
  /\ \A i \in 1..3 : dirent_index[2].nodes[i].name_hash
                       = dirent_index[2].nodes[1].name_hash
  /\ daxfs_delta_lookup_dirent(dirent_index[2], DAXFS_ROOT_INO, "n1") = NULL
  /\ LatestNameRecord(delta_log[2], DAXFS_ROOT_INO, "n1") = 0

(* C32 *)
\* the records the entries of a dirent index for the name (d, n) refer to
DirentHdrs(T, d, n) ==
  {T.nodes[i].hdr : i \in {k \in 1..Len(T.nodes) :
                             T.nodes[k].parent_ino = d /\ T.nodes[k].name = n}}

\* C32: in every step and for every branch whose indices are in use, the
\* log size does not decrease; the records already in the log stay as they
\* are, byte for byte, also when a child is merged into the branch; an inode
\* that has an index entry keeps one, and the record its entry refers to
\* stays or moves to a greater log offset; the entries of a (parent, name)
\* key refer to records at the same or greater offsets than before, also
\* across the rebuild of the indices by a commit.
C32_LogAndIndexAdvance ==
  [][\A b \in Branches :
       /\ delta_size'[b] >= delta_size[b]
       /\ on_dax_delta_log_size'[b] >= on_dax_delta_log_size[b]
       /\ Len(delta_log'[b]) >= Len(delta_log[b])
       /\ SubSeq(delta_log'[b], 1, Len(delta_log[b])) = delta_log[b]
       /\ state'[b] = DAXFS_BRANCH_ACTIVE =>
            /\ \A ino \in DOMAIN inode_index[b] :
                  /\ ino \in DOMAIN inode_index'[b]
                  /\ inode_index'[b][ino].hdr >= inode_index[b][ino].hdr
            /\ \A d \in Inos : \A n \in Names :
                  \A h \in DirentHdrs(dirent_index[b], d, n) :
                     /\ DirentHdrs(dirent_index'[b], d, n) # {}
                     /\ \A h2 \in DirentHdrs(dirent_index'[b], d, n) : h2 >= h]_vars

\* a commit has rebuilt the indices of a parent that had records of its own:
\* the entry of f0 moved from the parent's record to the merged one
C32_Witness ==
  /\ last.op = "commit" /\ last.ret = 0
  /\ Len(delta_log[last.b]) >= 1
  /\ Len(delta_log[last.ino]) >= 3
  /\ 2 \in DOMAIN inode_index[last.ino]
  /\ inode_index[last.ino][2].hdr >= delta_log[last.ino][1].total_size

(* C33 *)
\* the positions of an enumeration that carry the name n
Emitted(it, n) == {i \in 1..Len(it) : it[i].name = n}

\* C33: on every mount and for every directory d of it, a complete
\* enumeration of d emits a name n exactly once and with the inode number
\* lookup(d, n) returns when that lookup succeeds, and does not emit n when
\* the lookup returns NOENT.
C33_IterateAgreesLookup ==
  \A b \in Live : \A d \in Dirs(b) : \A n \in Names :
     IF daxfs_lookup(b, d, n) # -ENOENT
     THEN /\ Cardinality(Emitted(daxfs_iterate(b, d), n)) = 1
          /\ \A i \in Emitted(daxfs_iterate(b, d), n) :
                daxfs_iterate(b, d)[i].ino = daxfs_lookup(b, d, n)
     ELSE Emitted(daxfs_iterate(b, d), n) = {}

\* a name created and then unlinked on the same branch: lookup returns NOENT
\* and the enumeration of the directory still emits it
C33_Witness ==
  /\ last.op = "unlink" /\ last.ret = 0 /\ last.name = "n1"
  /\ ~invalidated[last.b]
  /\ daxfs_lookup(last.b, last.dir, "n1") = -ENOENT
  /\ Emitted(daxfs_iterate(last.b, last.dir), "n1") # {}

(* C34 *)
\* the log of the branch holds a DELETE record for the inode
HasTombstone(b, ino) ==
  \E i \in 1..Len(delta_log[b]) :
     delta_log[b][i].type = DAXFS_DELTA_DELETE /\ delta_log[b][i].ino = ino

\* C34: once a DELETE record for an inode lies in the log of a mounted
\* branch, is_deleted(branch, inode) is true whatever records for that inode
\* follow it, and an unlinked file of the base image is neither found by
\* lookup nor emitted by an enumeration on that branch.
C34_TombstoneSticky ==
  \A b \in Live : \A ino \in Inos :
     HasTombstone(b, ino) =>
        /\ daxfs_delta_is_deleted(inode_index[b], ino)
        /\ ino = OpenIno =>
             /\ daxfs_lookup(b, DAXFS_ROOT_INO, "f0") = -ENOENT
             /\ Emitted(daxfs_iterate(b, DAXFS_ROOT_INO), "f0") = {}

\* f0 was unlinked and then truncated through the open file: the tombstone
\* is gone and the enumeration emits f0 again
C34_Witness ==
  /\ last.op = "setattr" /\ last.ret = 0 /\ last.ino = OpenIno
  /\ ~invalidated[last.b]
  /\ HasTombstone(last.b, OpenIno)
  /\ ~daxfs_delta_is_deleted(inode_index[last.b], OpenIno)
  /\ Emitted(daxfs_iterate(last.b, DAXFS_ROOT_INO), "f0") # {}

(* C35 *)
\* the step is a successful setattr whose ia_valid is exactly v
SetattrStep(v) ==
  /\ nops' = nops + 1
  /\ last'.op = "setattr" /\ last'.ret = 0 /\ last'.flags = v
  /\ ~invalidated[last'.b]

\* C35: a setattr that changes only the mode leaves the size that
\* daxfs_resolve_inode returns for the inode unchanged, and a truncate leaves
\* the mode it returns unchanged, also when the inode comes from the base
\* image or an ancestor and the branch had no index entry for it before
C35_SetattrFrame ==
  [][\A b \in Branches : \A ino \in Inos :
       (last'.b = b /\ last'.ino = ino) =>
          /\ SetattrStep(DAXFS_ATTR_MODE) =>
               daxfs_resolve_inode(b, ino).size' = daxfs_resolve_inode(b, ino).size
          /\ SetattrStep(DAXFS_ATTR_SIZE) =>
               daxfs_resolve_inode(b, ino).mode' = daxfs_resolve_inode(b, ino).mode]_vars

\* a truncate has just created the first index entry of a base file in the
\* branch, and the mode resolved for the file is no longer the base mode
C35_Witness ==
  /\ last.op = "setattr" /\ last.ret = 0 /\ last.flags = DAXFS_ATTR_SIZE
  /\ ~invalidated[last.b]
  /\ last.ino <= base_inode_count
  /\ Len(delta_log[last.b]) = 1
  /\ daxfs_resolve_inode(last.b, last.ino).mode # base_inodes[last.ino].mode

(* C36 *)
\* the records a scan of the log visits: it starts at offset 0, stops at the
\* first header whose total_size reads 0 and otherwise steps by total_size
RECURSIVE LogScan(_, _, _, _)
LogScan(log, size, i, offset) ==
  IF offset >= size \/ i > Len(log) THEN {}
  ELSE IF log[i].total_size = 0 THEN {}
  ELSE {i} \cup LogScan(log, size, i + 1, offset + log[i].total_size)

\* a thread is between the reservation of slot i of branch b and its return
Appending(t, b, i) ==
  /\ pc[t] \in {"da_persist", "da_unlock"} \/ Owns(t)
  /\ loc[t].b = b
  /\ loc[t].slot <= i /\ i < loc[t].slot + loc[t].n

\* C36: a record whose append has returned success is visited by every log
\* scan that starts afterwards, also while another append has reserved space
\* at a lower offset and has not written its header yet.
C36_ReturnedVisited ==
  \A b \in Branches : \A i \in 1..Len(delta_log[b]) :
     (\A t \in Threads : ~Appending(t, b, i)) =>
        i \in LogScan(delta_log[b], delta_size[b], 1, 0)

\* the append of the second record has returned 0 while the thread that
\* reserved the first 50 bytes has not written its header
C36_Witness ==
  \E t \in Threads :
     /\ pc[t] = "ap_hdr" /\ loc[t].b = 2 /\ loc[t].slot = 1
     /\ last.op = "append" /\ last.ret = 0 /\ last.b = 2
     /\ Len(delta_log[2]) = 2
     /\ delta_log[2][1] = BlankRec
     /\ FullyWritten(delta_log[2][2])
     /\ \A u \in Threads : ~Appending(u, 2, 2)

(* C37 *)
\* the step is a write to inode ino on branch b that failed with EFAULT
FaultedWrite(b, ino) ==
  /\ nops' = nops + 1
  /\ last'.op = "write" /\ last'.ret = -EFAULT
  /\ last'.b = b /\ last'.ino = ino

\* C37: a write that fails with EFAULT changes no later read of the file, and
\* the size of the file stays what it was.
C37_FaultedWriteFrame ==
  [][\A b \in Branches : \A ino \in Inos :
       FaultedWrite(b, ino) =>
          /\ ISize(b, ino)' = ISize(b, ino)
          /\ \A pos \in 0..(MaxPos + MaxWriteLen) : \A count \in 1..(MaxWriteLen + 1) :
                daxfs_read_iter(b, ino, pos, count)' = daxfs_read_iter(b, ino, pos, count)]_vars

\* the failed write has left its record in the log, and a read of the file
\* returns a byte of that record
C37_Witness ==
  /\ last.op = "write" /\ last.ret = -EFAULT
  /\ delta_log[last.b] # <<>>
  /\ delta_log[last.b][Len(delta_log[last.b])].type = DAXFS_DELTA_WRITE
  /\ ISize(last.b, last.ino) = base_inodes[OpenIno].size
  /\ daxfs_read_iter(last.b, last.ino, last.pos, 1) = <<Zero>>

(* C38 *)
\* record k of the log of branch b is a truncate of ino to a size of at most pos
TruncatedAt(b, ino, pos, k) ==
  /\ delta_log[b][k].type = DAXFS_DELTA_TRUNCATE
  /\ delta_log[b][k].ino = ino
  /\ delta_log[b][k].new_size <= pos

\* the byte a read of ino at pos returns was stored before record k of the
\* log of branch b was appended: it lies in the base image, in an ancestor
\* or in an earlier record of the same log
StoredBefore(b, ino, pos, k) ==
  LET r == daxfs_resolve_file_data(b, ino, pos, 1) IN
  /\ daxfs_read_iter(b, ino, pos, 1) # <<>>
  /\ \/ r.src = "base"
     \/ r.src = "delta" /\ r.branch # b
     \/ r.src = "delta" /\ r.branch = b /\ r.rec < k

\* C38: after truncate(ino, n) no read returns a byte that was stored at a
\* position >= n before the truncate, also after the file has been extended
\* past n again.
C38_TruncateHides ==
  \A b \in Live : \A ino \in Inos : \A pos \in 0..(MaxPos + MaxWriteLen) :
     \A k \in 1..Len(delta_log[b]) :
        (~invalidated[b] /\ TruncatedAt(b, ino, pos, k)) => ~StoredBefore(b, ino, pos, k)

\* f0 was truncated to 0 and then extended by a write at position 1; a read
\* at position 0 returns the first byte of the base image
C38_Witness ==
  /\ last.op = "write" /\ last.ret = 1 /\ last.ino = OpenIno /\ last.pos = 1
  /\ ~invalidated[last.b]
  /\ Len(delta_log[last.b]) = 2
  /\ TruncatedAt(last.b, OpenIno, 0, 1)
  /\ daxfs_read_iter(last.b, OpenIno, 0, 1) = SubSeq(base_inodes[OpenIno].data, 1, 1)

(* C39 *)
\* what the claim compares: deleted flag, size and mode of every inode entry,
\* record and deleted flag of every name
IndexView(b) ==
  [inode |-> [i \in DOMAIN inode_index[b] |->
                <<inode_index[b][i].deleted, inode_index[b][i].size,
                  inode_index[b][i].mode>>],
   found |-> [d \in Inos, n \in Names |-> DirentFound(dirent_index[b], d, n)]]

\* C39: the indices obtained by discarding a branch's in-memory indices and
\* running build_index over its log are identical (deleted flag, size and
\* mode of every inode; record and deleted flag of every name) to the
\* indices maintained while the operations ran.
C39_RebuildEqualsLive ==
  [][last'.op = "build" => \A b \in {last'.b} : IndexView(b)' = IndexView(b)]_vars

\* the index of a branch whose only record is a write to the base file was
\* rebuilt, and the rebuilt entry has lost the mode the write had stored
C39_Witness ==
  /\ last.op = "build"
  /\ Len(delta_log[last.b]) = 1
  /\ delta_log[last.b][1].type = DAXFS_DELTA_WRITE
  /\ inode_index[last.b][OpenIno].mode # base_inodes[OpenIno].mode

(* C40 *)
\* C40: every log scan (index build, data resolution, enumeration) ends
\* whatever the log holds, because each iteration stops at a total_size of 0
\* or moves the offset strictly towards delta_size; and a read ends and
\* returns at most min(len, size - pos) bytes, each iteration taking at least
\* one byte or stopping.
C40_ScansTerminate ==
  /\ \A t \in Threads : (pc[t] # "idle") ~> (pc[t] = "idle")
  /\ [][\A t \in Threads :
          /\ (pc[t] = "sc_next" /\ pc'[t] = "sc_test") =>
                /\ loc'[t].offset > loc[t].offset
                /\ loc[t].offset < delta_size[loc[t].b]
          /\ (pc[t] = "rd_loop" /\ pc'[t] = "rd_loop" /\ loc'[t] # loc[t]) =>
                /\ loc'[t].count < loc[t].count
                /\ loc'[t].total > loc[t].total
          /\ (loc[t].op = "read" /\ pc'[t] = "idle") =>
                /\ last'.ret <= Min(loc[t].len,
                                    Max((IF pc[t] = "rd_clamp"
                                         THEN ISize(loc[t].b, loc[t].ino)
                                         ELSE loc[t].size) - loc[t].offset, 0))
                /\ last'.ret = -EFAULT \/ last'.ret >= 0]_vars

\* a scan has stepped over a record of 24 bytes that the log does not hold
\* and stands inside the record of a write, and a read has returned two bytes
C40_Witness ==
  /\ \E t \in Threads :
        /\ pc[t] = "sc_hdr" /\ loc[t].i > 0
        /\ loc[t].offset = SIZEOF_HDR
        /\ delta_size[loc[t].b] > SIZEOF_HDR
  /\ last.op = "read" /\ last.ret = 2
====
